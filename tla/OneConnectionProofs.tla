------------------------- MODULE OneConnectionProofs -------------------------
(***************************************************************************)
(* What Framework promises as long as one connection is made, for any      *)
(* number of sockets, workers and packets: OneReceive and GivenBackOnce.   *)
(* The handlers are followed along the path of the one connection: whoever *)
(* can begin or renew its receive, count it or give its socket back is     *)
(* alone with it.                                                          *)
(***************************************************************************)
EXTENDS FrameworkProofs

(* The steps of a handler that still has a receive to begin, or handles    *)
(* one and has not renewed it.                                             *)
ReceiveSteps == {"update", "updating", "check", "seek", "claim", "ready",
                 "store", "begin", "swallow", "assembled", "rearm"}

(* Where the receive of the connection can be: with a worker, among the    *)
(* completions (as a connection that will begin it, or completed), or with *)
(* the kernel.                                                             *)
Owed(w)       == pc[w] \in ReceiveSteps
Carries(c)    == c.op = "RECV" \/ (c.op = "ACCEPT" /\ c.ok)
Queued(i)     == i \in 1..Len(port) /\ Carries(port[i])
Pending(s, i) == i \in 1..Len(recvq[s])

NoneOwed    == \A w \in Workers : ~ Owed(w)
NoneQueued  == \A i \in Nat : ~ Queued(i)
NonePending == \A s \in Sockets, i \in Nat : ~ Pending(s, i)

OneOwed    == \A v, w \in Workers : Owed(v) /\ Owed(w) => v = w
OneQueued  == \A i, j \in Nat : Queued(i) /\ Queued(j) => i = j
OnePending == \A s, t \in Sockets, i, j \in Nat :
                Pending(s, i) /\ Pending(t, j) => s = t /\ i = j

(* OneReceive is not inductive: it does not see the worker that will begin *)
(* the first receive, nor the one that will renew it.                      *)
OneSource ==
  \/ NoneOwed /\ NoneQueued /\ NonePending
  \/ /\ connections # 0
     /\ \/ OneOwed /\ NoneQueued /\ NonePending
        \/ NoneOwed /\ OneQueued /\ NonePending
        \/ NoneOwed /\ NoneQueued /\ OnePending

Single == connections <= 1 => OneSource

-------------------------------------------------------------------------------
(* Steps that bring no receive nearer.                                     *)
Quiet ==
  /\ connections' = connections
  /\ \A v \in Workers : Owed(v)' => Owed(v)
  /\ \A i \in Nat : Queued(i)' => Queued(i)
  /\ \A s \in Sockets, i \in Nat : Pending(s, i)' => Pending(s, i)

LEMMA QuietStep ==
  ASSUME Single, Quiet PROVE Single'
BY DEF Single, Quiet, OneSource, NoneOwed, NoneQueued, NonePending, OneOwed,
       OneQueued, OnePending

(* What is posted is queued last.                                          *)
LEMMA CarriedAfterPost ==
  ASSUME port \in Seq(Completions), NEW c \in Completions, Post(c)
  PROVE  \A i \in Nat :
           Queued(i)' <=> \/ Queued(i)
                          \/ i = Len(port) + 1 /\ Carries(c)
<1>1. /\ Len(port) \in Nat /\ Len(port') = Len(port) + 1
      /\ \A i \in 1..Len(port) : port'[i] = port[i]
      /\ port'[Len(port) + 1] = c
  BY DEF Post
<1>2. 1..Len(port') = (1..Len(port)) \cup {Len(port) + 1}
  BY <1>1
<1>3. \A i \in 1..Len(port) : Carries(port'[i]) <=> Carries(port[i])
  BY <1>1
<1>4. Carries(port'[Len(port) + 1]) <=> Carries(c)
  BY <1>1
<1>5. Len(port) + 1 \notin 1..Len(port)
  BY <1>1
<1> QED
  BY <1>2, <1>3, <1>4, <1>5 DEF Queued

LEMMA CarriedAfterDequeue ==
  ASSUME port \in Seq(Completions), port # <<>>, port' = Tail(port)
  PROVE  /\ \A i \in Nat : Queued(i)' => Queued(i + 1) /\ i # 0
         /\ Carries(Head(port)) => Queued(1)
<1>1. /\ Len(port) \in Nat \ {0} /\ Len(port') = Len(port) - 1
      /\ \A i \in 1..Len(port) - 1 : port'[i] = port[i + 1]
      /\ Head(port) = port[1]
  OBVIOUS
<1> QED
  BY <1>1 DEF Queued

(* WSARecv, called by the worker that has the receive: it is with the      *)
(* kernel then, or completed, or lost.                                     *)
LEMMA RecvMoves ==
  ASSUME TypeOK, NEW p \in Places, NEW probe \in BOOLEAN, NEW at \in Nat,
         Recv(p, probe, at), NoneQueued, NonePending
  PROVE  \/ OneQueued' /\ NonePending'
         \/ NoneQueued' /\ OnePending'
<1> DEFINE r == [place |-> p, probe |-> probe, at |-> at]
<1>1. CASE RecvResult(p) = "done"
  <2>1. CompleteRecv(mySocket[p], r) /\ recvq' = recvq
    BY <1>1 DEF Recv
  <2>2. PICK data \in BOOLEAN : Post(Received(r, TRUE, data))
    BY <2>1 DEF CompleteRecv
  <2>3. Received(r, TRUE, data) \in Completions
    BY DEF Received, Completions, Operations
  <2>4. \A i \in Nat : Queued(i)' => i = Len(port) + 1
    BY <2>2, <2>3, CarriedAfterPost DEF TypeOK, NoneQueued
  <2>5. OneQueued'
    BY <2>4 DEF OneQueued
  <2>6. NonePending'
    BY <2>1 DEF NonePending, Pending
  <2> QED
    BY <2>5, <2>6
<1>2. CASE RecvResult(p) = "pending"
  <2> DEFINE s == mySocket[p]
  <2>1. recvq' = [recvq EXCEPT ![s] = Append(@, r)] /\ port' = port
    BY <1>2 DEF Recv
  <2>2. s \in Sockets
    BY <1>2 DEF RecvResult, TypeOK
  <2>3. recvq[s] \in Seq(Receives) /\ ~ (1 \in 1..Len(recvq[s]))
    BY <2>2 DEF TypeOK, NonePending, Pending
  <2>4. Len(recvq[s]) = 0
    BY <2>3
  <2>5. Len(recvq'[s]) = 1
    BY <2>1, <2>2, <2>3, <2>4 DEF TypeOK
  <2>6. \A t \in Sockets \ {s} : recvq'[t] = recvq[t]
    BY <2>1 DEF TypeOK
  <2>7. \A t \in Sockets, i \in Nat : Pending(t, i)' => t = s /\ i = 1
    <3> SUFFICES ASSUME NEW t \in Sockets, NEW i \in Nat, Pending(t, i)'
                 PROVE  t = s /\ i = 1
      OBVIOUS
    <3>1. t = s
      <4>1. t # s => Pending(t, i)
        BY <2>6 DEF Pending
      <4> QED
        BY <4>1 DEF NonePending
    <3>2. i \in 1..Len(recvq'[t])
      BY DEF Pending
    <3>3. i \in 1..1
      BY <2>5, <3>1, <3>2
    <3> QED
      BY <3>1, <3>3
  <2>8. OnePending'
    BY <2>7 DEF OnePending
  <2>9. NoneQueued'
    BY <2>1 DEF NoneQueued, Queued
  <2> QED
    BY <2>8, <2>9
<1>3. CASE RecvResult(p) = "error"
  <2>1. UNCHANGED <<port, recvq>>
    BY <1>3 DEF Recv
  <2>2. NoneQueued' /\ NonePending'
    BY <2>1 DEF NoneQueued, NonePending, Queued, Pending
  <2> QED
    BY <2>2 DEF OneQueued, NoneQueued
<1> QED
  BY <1>1, <1>2, <1>3 DEF Recv

(* The two callers of WSARecv had the receive, and do not have it then.    *)
LEMMA CallerStep ==
  ASSUME TypeOK, Single, NEW w \in Workers, BeginRecv(w) \/ Rearm(w)
  PROVE  Single'
<1> SUFFICES ASSUME connections <= 1 PROVE OneSource'
  BY DEF Single, BeginRecv, Rearm
<1>1. Owed(w) /\ connections' = connections
  BY DEF Owed, ReceiveSteps, At, BeginRecv, Rearm
<1>2. connections # 0 /\ OneOwed /\ NoneQueued /\ NonePending
  BY <1>1 DEF Single, OneSource, NoneOwed
<1>3. NoneOwed'
  <2>1. pc'[w] \in {"port", "request"}
    <3>1. Goto(w, "port") \/ Goto(w, Swallowed(got[w]))
      BY DEF BeginRecv, Rearm
    <3> QED
      BY <3>1 DEF TypeOK, Goto, Swallowed
  <2>2. \A v \in Workers \ {w} : pc'[v] = pc[v]
    BY DEF TypeOK, BeginRecv, Rearm, Goto
  <2>3. \A v \in Workers \ {w} : ~ Owed(v)
    BY <1>1, <1>2 DEF OneOwed
  <2> QED
    BY <2>1, <2>2, <2>3 DEF NoneOwed, Owed, ReceiveSteps
<1>4. (OneQueued' /\ NonePending') \/ (NoneQueued' /\ OnePending')
  <2>1. /\ spot[w] \in Places /\ buf[spot[w]] \in Nat
        /\ (~ sized[spot[w]]) \in BOOLEAN /\ myRecvSize[spot[w]] \in Nat
    BY DEF TypeOK
  <2>2. CASE BeginRecv(w)
    BY <1>2, <2>1, <2>2, RecvMoves DEF BeginRecv
  <2>3. CASE Rearm(w)
    BY <1>2, <2>1, <2>3, RecvMoves DEF Rearm
  <2> QED
    BY <2>2, <2>3
<1> QED
  BY <1>1, <1>2, <1>3, <1>4 DEF OneSource

LEMMA DequeueStep ==
  ASSUME TypeOK, Single, NEW w \in Workers, Dequeue(w)
  PROVE  Single'
<1> SUFFICES ASSUME connections <= 1 PROVE OneSource'
  BY DEF Single, Dequeue, netVars
<1> DEFINE c == Head(port)
<1>1. /\ \A i \in Nat : Queued(i)' => Queued(i + 1) /\ i # 0
      /\ Carries(c) => Queued(1)
  BY CarriedAfterDequeue DEF Dequeue, TypeOK
<1>2. /\ pc'[w] = Route(c) /\ ~ Owed(w)
      /\ \A v \in Workers \ {w} : pc'[v] = pc[v]
      /\ UNCHANGED <<recvq, connections>>
  BY DEF Dequeue, TypeOK, At, Goto, Owed, ReceiveSteps, netVars
<1>3. \A s \in Sockets, i \in Nat : Pending(s, i)' <=> Pending(s, i)
  BY <1>2 DEF Pending
<1>4. Owed(w)' => Carries(c)
  <2>1. c \in Completions
    BY SeqType DEF Dequeue, TypeOK
  <2> QED
    BY <1>2, <2>1 DEF Owed, ReceiveSteps, Carries, Route, Completions,
                      Operations
<1>5. CASE Carries(c)
  <2>1. Queued(1) /\ 1 \in Nat
    BY <1>1, <1>5
  <2>2. connections # 0 /\ NoneOwed /\ OneQueued /\ NonePending
    BY <2>1 DEF Single, OneSource, NoneQueued
  <2>3. NoneQueued'
    <3> SUFFICES ASSUME NEW i \in Nat, Queued(i)' PROVE FALSE
      BY DEF NoneQueued
    <3>1. Queued(i + 1) /\ i # 0 /\ i + 1 \in Nat
      BY <1>1
    <3>2. i + 1 = 1
      BY <2>1, <2>2, <3>1 DEF OneQueued
    <3> QED
      BY <3>1, <3>2
  <2>4. OneOwed' /\ NonePending'
    BY <1>2, <1>3, <2>2 DEF OneOwed, NoneOwed, NonePending, Owed
  <2> QED
    BY <1>2, <2>2, <2>3, <2>4 DEF OneSource
<1>6. CASE ~ Carries(c)
  <2>1. \A v \in Workers : Owed(v)' => Owed(v)
    BY <1>2, <1>4, <1>6 DEF Owed
  <2>2. NoneQueued => NoneQueued'
    BY <1>1 DEF NoneQueued
  <2>3. OneQueued => OneQueued'
    <3> SUFFICES ASSUME OneQueued, NEW i \in Nat, NEW j \in Nat,
                        Queued(i)', Queued(j)'
                 PROVE  i = j
      BY DEF OneQueued
    <3>1. Queued(i + 1) /\ Queued(j + 1) /\ i + 1 \in Nat /\ j + 1 \in Nat
      BY <1>1
    <3>2. i + 1 = j + 1
      BY <3>1 DEF OneQueued
    <3> QED
      BY <3>2
  <2> QED
    BY <1>2, <1>3, <2>1, <2>2, <2>3
       DEF Single, OneSource, NoneOwed, OneOwed, NonePending, OnePending
<1> QED
  BY <1>5, <1>6

(* A receive completes: it was the only one.                               *)
LEMMA CompletionStep ==
  ASSUME TypeOK, Single, NEW s \in Sockets, Deliver(s) \/ AbortRecv(s)
  PROVE  Single'
<1> SUFFICES ASSUME connections <= 1 PROVE OneSource'
  BY DEF Single, Deliver, AbortRecv
<1>1. /\ recvq[s] \in Seq(Receives) /\ recvq[s] # <<>>
      /\ recvq' = [recvq EXCEPT ![s] = Tail(@)]
      /\ pc' = pc /\ connections' = connections
  BY DEF TypeOK, Deliver, AbortRecv, workerVars, countVars
<1>2. Len(recvq[s]) \in Nat \ {0} /\ Len(recvq'[s]) = Len(recvq[s]) - 1
  BY <1>1 DEF TypeOK
<1>3. Pending(s, 1)
  BY <1>2 DEF Pending
<1>4. connections # 0 /\ NoneOwed /\ NoneQueued /\ OnePending
  BY <1>3 DEF Single, OneSource, NonePending
<1>5. NonePending'
  <2> SUFFICES ASSUME NEW t \in Sockets, NEW i \in Nat, Pending(t, i)'
               PROVE  FALSE
    BY DEF NonePending
  <2>1. CASE t = s
    <3>1. Pending(s, i + 1) /\ i # 0 /\ i + 1 \in Nat
      BY <1>2, <2>1 DEF Pending
    <3>2. i + 1 = 1
      BY <1>3, <1>4, <3>1 DEF OnePending
    <3> QED
      BY <3>1, <3>2
  <2>2. CASE t # s
    <3>1. Pending(t, i)
      BY <1>1, <2>2 DEF Pending, TypeOK
    <3> QED
      BY <1>3, <1>4, <2>2, <3>1 DEF OnePending
  <2> QED
    BY <2>1, <2>2
<1>6. PICK c \in Completions : Post(c)
  <2>1. Head(recvq[s]) \in Receives
    BY <1>1, SeqType
  <2>2. \A ok, data \in BOOLEAN :
          Received(Head(recvq[s]), ok, data) \in Completions
    BY <2>1 DEF Received, Receives, Completions, Operations
  <2>3. CASE Deliver(s)
    <3>1. PICK data \in BOOLEAN : Post(Received(Head(recvq[s]), TRUE, data))
      BY <2>3 DEF Deliver, CompleteRecv
    <3> QED
      BY <2>2, <3>1
  <2>4. CASE AbortRecv(s)
    <3>1. PICK ok \in BOOLEAN : Post(Received(Head(recvq[s]), ok, FALSE))
      BY <2>4 DEF AbortRecv
    <3> QED
      BY <2>2, <3>1
  <2> QED
    BY <2>3, <2>4
<1>7. OneQueued'
  <2>1. \A i \in Nat : Queued(i)' => i = Len(port) + 1
    BY <1>4, <1>6, CarriedAfterPost DEF TypeOK, NoneQueued
  <2> QED
    BY <2>1 DEF OneQueued
<1>8. NoneOwed'
  BY <1>1, <1>4 DEF NoneOwed, Owed
<1> QED
  BY <1>1, <1>4, <1>5, <1>7, <1>8 DEF OneSource

(* The first connection brings the receive; of more, nothing is said.      *)
LEMMA ConnectStep ==
  ASSUME TypeOK, Single, ClientConnects
  PROVE  Single'
<1>1. /\ connections \in Nat /\ connections' = connections + 1
      /\ UNCHANGED <<pc, recvq>>
  BY DEF TypeOK, ClientConnects, workerVars, countVars
<1> SUFFICES ASSUME connections' <= 1 PROVE OneSource'
  BY DEF Single
<1>2. connections = 0
  BY <1>1
<1>3. NoneOwed /\ NoneQueued /\ NonePending
  BY <1>2 DEF Single, OneSource
<1>4. Post(Done("ACCEPT", TRUE)) /\ Done("ACCEPT", TRUE) \in Completions
  BY MaxUsersNat DEF ClientConnects, Done, Completions, Operations, Places
<1>5. OneQueued'
  <2>1. \A i \in Nat : Queued(i)' => i = Len(port) + 1
    BY <1>3, <1>4, CarriedAfterPost DEF TypeOK, NoneQueued
  <2> QED
    BY <2>1 DEF OneQueued
<1>6. NoneOwed' /\ NonePending'
  BY <1>1, <1>3 DEF NoneOwed, NonePending, Owed, Pending
<1> QED
  BY <1>1, <1>2, <1>5, <1>6 DEF OneSource

-------------------------------------------------------------------------------
(* All other steps are quiet.                                              *)

(* A step that leaves the completions and receives, where only w moves.    *)
LEMMA Moves ==
  ASSUME NEW w \in Workers, UNCHANGED <<port, recvq, connections>>,
         \A v \in Workers \ {w} : pc'[v] = pc[v],
         Owed(w)' => Owed(w)
  PROVE  Quiet
BY DEF Quiet, Owed, Queued, Pending

LEMMA AcceptQuiet ==
  ASSUME TypeOK, NEW w \in Workers, AcceptStep(w), ~ BeginRecv(w)
  PROVE  Quiet
<1> USE DEF TypeOK, At, Goto, Owed, ReceiveSteps, workerVars, countVars,
            netVars
<1>1. CASE AcceptLoad(w) \/ AcceptPop(w) \/ AcceptRearm(w)
  BY <1>1, Moves DEF AcceptLoad, AcceptPop, AcceptRearm
<1>2. CASE \/ Admit(w) \/ Refuse(w) \/ SeekRead(w) \/ SeekNewbiePlace(w)
           \/ NoPlace(w)
  BY <1>2, Moves DEF Admit, Refuse, SeekRead, SeekNewbiePlace, NoPlace
<1>3. CASE Claim(w) \/ Ready(w) \/ StoreUsers(w)
  BY <1>3, Moves DEF Claim, Ready, StoreUsers
<1> QED
  BY <1>1, <1>2, <1>3 DEF AcceptStep

LEMMA RecvQuiet ==
  ASSUME TypeOK, NEW w \in Workers, RecvStep(w), ~ Rearm(w)
  PROVE  Quiet
<1> USE DEF TypeOK, At, Goto, Owed, ReceiveSteps, workerVars, countVars,
            netVars
<1>1. CASE Assemble(w) \/ SwallowAcquire(w) \/ RearmNot(w) \/ RequestAcquire(w)
  BY <1>1, Moves DEF Assemble, SwallowAcquire, RearmNot, RequestAcquire,
                     Swallowed
<1>2. CASE HandleVersion(w) \/ HandleSignIn(w) \/ HandleNothing(w)
  <2>1. /\ UNCHANGED <<port, recvq, connections>>
        /\ pc' = [pc EXCEPT ![w] = "port"]
    BY <1>2 DEF HandleVersion, HandleSignIn, HandleNothing
  <2> QED
    BY <2>1, Moves
<1>3. CASE HandleDisposeGone(w) \/ DisposeForget(w) \/ HandleDispose(w)
  <2>1. /\ UNCHANGED <<port, recvq, connections>>
        /\ pc'[w] \in {"forget", "port", "unlock"}
        /\ \A v \in Workers \ {w} : pc'[v] = pc[v]
    BY <1>3 DEF HandleDisposeGone, DisposeForget, HandleDispose
  <2> QED
    BY <2>1, Moves
<1>4. CASE DisposeRelease(w) \/ DisposeRestore(w)
  <2>1. /\ UNCHANGED <<port, recvq, connections>>
        /\ pc'[w] \in {"restore", "port"}
        /\ \A v \in Workers \ {w} : pc'[v] = pc[v]
    BY <1>4 DEF DisposeRelease, DisposeRestore
  <2> QED
    BY <2>1, Moves
<1> QED
  BY <1>1, <1>2, <1>3, <1>4 DEF RecvStep

LEMMA DisposeQuiet ==
  ASSUME TypeOK, NEW w \in Workers, DisposeStep(w)
  PROVE  Quiet
<1> USE DEF TypeOK, At, Goto, Owed, ReceiveSteps, workerVars, countVars,
            netVars
<1>1. CASE DropAcquire(w) \/ Drop(w) \/ DisposeGiveBack(w)
  BY <1>1, Moves DEF DropAcquire, Drop, DisposeGiveBack
<1>2. CASE CleanAcquire(w) \/ Clean(w) \/ Uncount(w)
  BY <1>2, Moves DEF CleanAcquire, Clean, Uncount
<1> QED
  BY <1>1, <1>2 DEF DisposeStep

LEMMA TerminateQuiet ==
  ASSUME Terminate PROVE Quiet
BY DEF Terminate, Quiet, Owed, Queued, Pending, ReceiveSteps, netVars

(* A disconnection done, or an AcceptEx that failed, carries no receive.   *)
LEMMA OtherPostQuiet ==
  ASSUME TypeOK, NEW c \in Completions, Post(c), ~ Carries(c),
         UNCHANGED <<pc, recvq, connections>>
  PROVE  Quiet
BY CarriedAfterPost DEF TypeOK, Quiet, Owed, Pending

LEMMA SingleStep ==
  TypeOK /\ Single /\ [Next]_vars => Single'
<1> SUFFICES ASSUME TypeOK, Single, [Next]_vars PROVE Single'
  OBVIOUS
<1>1. ASSUME NEW w \in Workers, WorkerStep(w) PROVE Single'
  <2>1. CASE BeginRecv(w) \/ Rearm(w)
    BY <2>1, CallerStep
  <2>2. CASE Dequeue(w)
    BY <2>2, DequeueStep
  <2>3. CASE Throw(w) \/ SignInThrows(w)
    BY <2>3, TerminateQuiet, QuietStep DEF Throw, SignInThrows
  <2> QED
    BY <1>1, <2>1, <2>2, <2>3, AcceptQuiet, RecvQuiet, DisposeQuiet, QuietStep
       DEF WorkerStep
<1>2. ASSUME NEW s \in Sockets, KernelStep(s) PROVE Single'
  <2>1. CASE Deliver(s) \/ AbortRecv(s)
    BY <2>1, CompletionStep
  <2>2. CASE Disconnects(s)
    <3>1. PICK ok \in BOOLEAN : Post(Done("DISPOSE", ok))
      BY <2>2, FrameworkAssumption DEF Disconnects
    <3>2. Done("DISPOSE", ok) \in Completions /\ ~ Carries(Done("DISPOSE", ok))
      BY MaxUsersNat DEF Done, Completions, Operations, Places, Carries
    <3>3. UNCHANGED <<pc, recvq, connections>>
      BY <2>2 DEF Disconnects, workerVars, countVars, netVars
    <3> QED
      BY <3>1, <3>2, <3>3, OtherPostQuiet, QuietStep
  <2> QED
    BY <1>2, <2>1, <2>2 DEF KernelStep
<1>3. CASE ClientStep
  <2>1. CASE ClientConnects
    BY <2>1, ConnectStep DEF Single
  <2>2. CASE AcceptFails
    <3>1. /\ Done("ACCEPT", FALSE) \in Completions
          /\ ~ Carries(Done("ACCEPT", FALSE))
      BY MaxUsersNat DEF Done, Completions, Operations, Places, Carries
    <3>2. Post(Done("ACCEPT", FALSE)) /\ UNCHANGED <<pc, recvq, connections>>
      BY <2>2 DEF AcceptFails, workerVars, countVars, netVars
    <3> QED
      BY <3>1, <3>2, OtherPostQuiet, QuietStep
  <2>3. CASE \/ \E s \in Sockets, kind \in ClientPackets : ClientSends(s, kind)
             \/ \E s \in Sockets, how \in Partings : ClientLeaves(s, how)
    <3>1. UNCHANGED <<pc, port, recvq, connections>>
      BY <2>3 DEF ClientSends, ClientLeaves, workerVars, countVars
    <3> QED
      BY <3>1, QuietStep DEF Quiet, Owed, Queued, Pending
  <2> QED
    BY <1>3, <2>1, <2>2, <2>3 DEF ClientStep
<1>4. CASE UNCHANGED vars
  <2>1. UNCHANGED <<pc, port, recvq, connections>>
    BY <1>4 DEF vars, workerVars, countVars, netVars
  <2> QED
    BY <2>1, QuietStep DEF Quiet, Owed, Queued, Pending
<1> QED
  BY <1>1, <1>2, <1>3, <1>4 DEF Next

LEMMA InitSingle == Init => Single
<1> SUFFICES ASSUME Init PROVE Single
  OBVIOUS
<1>1. NoneOwed /\ NoneQueued /\ NonePending
  BY DEF Init, NoneOwed, NoneQueued, NonePending, Owed, Queued, Pending,
         ReceiveSteps
<1> QED
  BY <1>1 DEF Single, OneSource

-------------------------------------------------------------------------------
(* A set with one element at most counts one at most.                      *)
LEMMA CountOne ==
  ASSUME NEW S, \A x, y \in S : x = y
  PROVE  Cardinality(S) \in 0..1
<1>1. CASE S = {}
  BY <1>1, FS_EmptySet
<1>2. CASE S # {}
  <2>1. PICK x \in S : TRUE
    BY <1>2
  <2>2. S = {x}
    BY <2>1
  <2> QED
    BY <2>2, FS_Singleton
<1> QED
  BY <1>1, <1>2

(* Where no receive is outstanding there is nothing to count.              *)
LEMMA OneSourceCounts ==
  ASSUME TypeOK, OneSource, NEW s \in Sockets
  PROVE  Len(recvq[s]) + Cardinality({i \in 1..Len(port) : port[i].op = "RECV"})
           + Cardinality({w \in Workers : At(w, "swallow")}) <= 1
<1> DEFINE queued == {i \in 1..Len(port) : port[i].op = "RECV"}
           held   == {w \in Workers : At(w, "swallow")}
<1>1. Len(recvq[s]) \in Nat /\ Len(port) \in Nat
  BY DEF TypeOK
<1>2. /\ \A w \in held : w \in Workers /\ Owed(w)
      /\ \A i \in queued : i \in Nat /\ Queued(i)
  <2>1. \A w \in held : w \in Workers /\ Owed(w)
    BY DEF At, Owed, ReceiveSteps
  <2>2. \A i \in queued : i \in Nat /\ Queued(i)
    BY <1>1 DEF Queued, Carries
  <2> QED
    BY <2>1, <2>2
<1>3. /\ NonePending => Len(recvq[s]) = 0
      /\ OnePending => Len(recvq[s]) <= 1
  <2>1. Len(recvq[s]) > 0 => Pending(s, 1)
    BY <1>1 DEF Pending
  <2>2. Len(recvq[s]) > 1 => Pending(s, 1) /\ Pending(s, 2)
    BY <1>1 DEF Pending
  <2> QED
    BY <1>1, <2>1, <2>2 DEF NonePending, OnePending
<1>4. /\ NoneQueued => Cardinality(queued) = 0
      /\ OneQueued => Cardinality(queued) \in 0..1
  <2>1. NoneQueued => queued = {}
    BY <1>2 DEF NoneQueued
  <2>2. OneQueued => \A i, j \in queued : i = j
    BY <1>2 DEF OneQueued
  <2> HIDE DEF queued
  <2> QED
    BY <2>1, <2>2, CountOne, FS_EmptySet
<1>5. /\ NoneOwed => Cardinality(held) = 0
      /\ OneOwed => Cardinality(held) \in 0..1
  <2>1. NoneOwed => held = {}
    BY <1>2 DEF NoneOwed
  <2>2. OneOwed => \A v, w \in held : v = w
    BY <1>2 DEF OneOwed
  <2> HIDE DEF held
  <2> QED
    BY <2>1, <2>2, CountOne, FS_EmptySet
<1> HIDE DEF queued, held
<1>6. Len(recvq[s]) + Cardinality(queued) + Cardinality(held) <= 1
  BY <1>1, <1>3, <1>4, <1>5 DEF OneSource
<1> QED
  BY <1>6 DEF queued, held

(* As long as one connection is made, its session never has two receives   *)
(* into its one buffer, outstanding or completed and not yet copied:       *)
(* BeginRecv starts the only one, and Swallow renews it after it has       *)
(* copied the data, whichever workers the completions go to.               *)
THEOREM FrameworkOneReceive == Spec => []OneReceive
<1>1. TypeOK /\ Single => OneReceive
  BY OneSourceCounts DEF Single, OneReceive
<1> QED
  BY <1>1, InitSingle, SingleStep, FrameworkTyping, PTL DEF Spec

-------------------------------------------------------------------------------
(* The end of the connection: at most one socket is to be disconnected, or *)
(* its disconnection waits among the completions, or with one worker.      *)
DisposeSteps == {"giveback", "cleaning", "clean", "uncount"}

Live(s)   == endpoint[s] \in {"connected", "closing"}
Ending(i) == i \in 1..Len(port) /\ port[i].op = "DISPOSE"
Ends(w)   == pc[w] \in DisposeSteps

NoneLive   == \A s \in Sockets : ~ Live(s)
NoneEnding == \A i \in Nat : ~ Ending(i)
NoneEnds   == \A w \in Workers : ~ Ends(w)

OneLive   == \A s, t \in Sockets : Live(s) /\ Live(t) => s = t
OneEnding == \A i, j \in Nat : Ending(i) /\ Ending(j) => i = j
OneEnds   == \A v, w \in Workers : Ends(v) /\ Ends(w) => v = w

NoEnd == NoneLive /\ NoneEnding /\ NoneEnds

OneEnd ==
  \/ NoEnd
  \/ /\ connections # 0
     /\ \/ OneLive /\ NoneEnding /\ NoneEnds
        \/ NoneLive /\ OneEnding /\ NoneEnds
        \/ NoneLive /\ NoneEnding /\ OneEnds

(* Its beginning: the connection is to come, or its completion is queued   *)
(* or with a worker that has not made the session ready ...                *)
ReadySteps == {"update", "updating", "check", "seek", "claim", "ready"}
EarlySteps == ReadySteps \cup {"store"}

Coming(i)  == i \in 1..Len(port) /\ port[i].op = "ACCEPT" /\ port[i].ok
NoneComing == \A i \in Nat : ~ Coming(i)

Uncounted ==
  /\ numberUsers = 0
  /\ NoneEnding
  /\ \A s \in Sockets : endpoint[s] # "closing"

NoneTaken == \A w \in Workers, p \in Places : seen[w][p] # "taken"

Arriving ==
  /\ Uncounted
  /\ \/ connections = 0 \/ ~ NoneComing
     \/ \E w \in Workers : pc[w] \in ReadySteps
  /\ \A w \in Workers : pc[w] \in ReadySteps \cup {"port", "throw"}
  /\ \A p \in Places : myState[p] = "NONE" /\ mySocket[p] = NULL
  /\ NoneTaken

(* ... or with one that is about to store the number it loaded ...         *)
Storing ==
  /\ Uncounted /\ connections # 0 /\ NoneComing
  /\ \E w \in Workers :
       /\ pc[w] = "store" /\ users[w] = 0
       /\ \A v \in Workers \ {w} : pc[v] \in {"port", "throw"}

(* ... then it is counted, until whoever ends it counts it out ...         *)
Counted ==
  /\ connections # 0 /\ NoneComing
  /\ \A w \in Workers : pc[w] \notin EarlySteps
  /\ numberUsers = 1 \/ (numberUsers = 0 /\ NoEnd)

(* ... unless the program ends before.                                     *)
Ended ==
  /\ \E w \in Workers : pc[w] = "gone"
  /\ \A w \in Workers : pc[w] = "gone"
  /\ numberUsers = 1 \/ (numberUsers = 0 /\ (NonePending \/ NoneLive))

Phase == Arriving \/ Storing \/ Counted \/ Ended

Life == connections <= 1 => OneEnd /\ Phase

-------------------------------------------------------------------------------
(* What is posted is last; what is dequeued was first.                     *)
LEMMA AfterPost ==
  ASSUME port \in Seq(Completions), NEW c \in Completions, Post(c)
  PROVE  /\ \A i \in Nat : i \in 1..Len(port') =>
              \/ i \in 1..Len(port) /\ port'[i] = port[i]
              \/ i = Len(port) + 1 /\ port'[i] = c
         /\ \A i \in 1..Len(port) : i \in 1..Len(port') /\ port'[i] = port[i]
         /\ Len(port) + 1 \in 1..Len(port') /\ port'[Len(port) + 1] = c
<1>1. /\ Len(port) \in Nat /\ Len(port') = Len(port) + 1
      /\ \A i \in 1..Len(port) : port'[i] = port[i]
      /\ port'[Len(port) + 1] = c
  BY DEF Post
<1> QED
  BY <1>1

LEMMA AfterDequeue ==
  ASSUME port \in Seq(Completions), port # <<>>, port' = Tail(port)
  PROVE  /\ \A i \in Nat : i \in 1..Len(port') =>
              i + 1 \in 1..Len(port) /\ port'[i] = port[i + 1] /\ i # 0
         /\ \A i \in Nat : i \in 1..Len(port) /\ i # 1 =>
              i - 1 \in 1..Len(port') /\ port'[i - 1] = port[i]
         /\ 1 \in 1..Len(port) /\ Head(port) = port[1]
         /\ Head(port) \in Completions
<1>1. /\ Len(port) \in Nat \ {0} /\ Len(port') = Len(port) - 1
      /\ \A i \in 1..Len(port) - 1 : port'[i] = port[i + 1]
      /\ Head(port) = port[1]
  OBVIOUS
<1>2. Head(port) \in Completions
  BY SeqType
<1> QED
  BY <1>1, <1>2

(* A completion that neither brings a connection nor ends one.             *)
LEMMA OtherPost ==
  ASSUME port \in Seq(Completions), NEW c \in Completions, Post(c),
         c.op # "DISPOSE", ~ (c.op = "ACCEPT" /\ c.ok)
  PROVE  \A i \in Nat : (Coming(i)' => Coming(i)) /\ (Ending(i)' => Ending(i))
BY AfterPost DEF Coming, Ending

LEMMA RecvOther ==
  ASSUME TypeOK, NEW p \in Places, NEW probe \in BOOLEAN, NEW at \in Nat,
         Recv(p, probe, at)
  PROVE  \A i \in Nat : (Coming(i)' => Coming(i)) /\ (Ending(i)' => Ending(i))
<1>1. CASE port' = port
  BY <1>1 DEF Coming, Ending
<1>2. CASE port' # port
  <2> DEFINE r == [place |-> p, probe |-> probe, at |-> at]
  <2>1. CompleteRecv(mySocket[p], r)
    BY <1>2 DEF Recv
  <2>2. PICK data \in BOOLEAN : Post(Received(r, TRUE, data))
    BY <2>1 DEF CompleteRecv
  <2>3. /\ Received(r, TRUE, data) \in Completions
        /\ Received(r, TRUE, data).op = "RECV"
    BY DEF Received, Completions, Operations
  <2> QED
    BY <2>2, <2>3, OtherPost DEF TypeOK
<1> QED
  BY <1>1, <1>2

(* Steps that begin no connection and no end of one.                       *)
Calm ==
  /\ connections' = connections
  /\ \A i \in Nat : (Coming(i)' => Coming(i)) /\ (Ending(i)' => Ending(i))
  /\ \A s \in Sockets : Live(s)' => Live(s)
  /\ \A v \in Workers :
       /\ pc'[v] \in EarlySteps => pc[v] \in EarlySteps
       /\ pc'[v] \in DisposeSteps => pc[v] \in DisposeSteps
       /\ pc'[v] = "giveback" => pc[v] = "giveback"

LEMMA CalmMove ==
  ASSUME TypeOK, NEW w \in Workers, NEW step \in Steps, Goto(w, step),
         UNCHANGED <<port, connections>>,
         \A s \in Sockets : Live(s)' => Live(s),
         step \in EarlySteps => pc[w] \in EarlySteps,
         step \in DisposeSteps => pc[w] \in DisposeSteps,
         step = "giveback" => pc[w] = "giveback"
  PROVE  Calm
BY DEF Calm, Coming, Ending, TypeOK, Goto

LEMMA DisconnectNowCalm ==
  ASSUME NEW s, DisconnectNow(s)
  PROVE  \A t \in Sockets : Live(t)' => Live(t)
BY DEF DisconnectNow, Disconnected, Live

LEMMA BeginDisconnectCalm ==
  ASSUME NEW p \in Places, BeginDisconnect(p)
  PROVE  \A t \in Sockets : Live(t)' => Live(t)
BY DEF BeginDisconnect, Live

LEMMA AcceptCalm ==
  ASSUME TypeOK, NEW w \in Workers, AcceptStep(w)
  PROVE  Calm
<1> USE DEF TypeOK, ConnectTypeOK, At, connectVars, netVars, workerVars,
            countVars, EarlySteps, ReadySteps, DisposeSteps, Steps,
            HoldingSteps
<1>1. CASE AcceptLoad(w)
  BY <1>1, CalmMove DEF AcceptLoad, UpdateLoad, Live
<1>2. CASE AcceptPop(w)
  BY <1>2 DEF AcceptPop, UpdatePop, Calm, Coming, Ending, Live
<1>3. CASE AcceptRearm(w)
  <2>1. \A s \in Sockets : Live(s)' => Live(s)
    BY <1>3 DEF AcceptRearm, UpdateAccept, Accept, Live
  <2> QED
    BY <1>3, <2>1, CalmMove DEF AcceptRearm
<1>4. CASE \/ Admit(w) \/ SeekNewbiePlace(w) \/ NoPlace(w) \/ Claim(w)
           \/ StoreUsers(w)
  BY <1>4, CalmMove
     DEF Admit, SeekNewbiePlace, NoPlace, Claim, StoreUsers, Live
<1>8. CASE SeekRead(w)
  BY <1>8 DEF SeekRead, Calm, Coming, Ending, Live
<1>5. CASE Refuse(w)
  BY <1>5, CalmMove, DisconnectNowCalm DEF Refuse
<1>6. CASE Ready(w)
  <2>1. /\ pc[w] = "ready" /\ (Goto(w, "store") \/ Goto(w, "port"))
        /\ UNCHANGED <<port, connections, endpoint>>
    BY <1>6 DEF Ready
  <2> QED
    BY <2>1, CalmMove DEF Live
<1>7. CASE BeginRecv(w)
  <2>1. /\ pc' = [pc EXCEPT ![w] = "port"]
        /\ UNCHANGED <<connections, endpoint>>
    BY <1>7 DEF BeginRecv, Goto
  <2>2. \A i \in Nat : (Coming(i)' => Coming(i)) /\ (Ending(i)' => Ending(i))
    <3>1. (~ sized[spot[w]]) \in BOOLEAN /\ buf[spot[w]] \in Nat
      OBVIOUS
    <3> QED
      BY <1>7, <3>1, RecvOther DEF BeginRecv
  <2> QED
    BY <2>1, <2>2 DEF Calm, Live
<1> QED
  BY <1>1, <1>2, <1>3, <1>4, <1>5, <1>6, <1>7, <1>8 DEF AcceptStep

LEMMA RecvCalm ==
  ASSUME TypeOK, NEW w \in Workers, RecvStep(w)
  PROVE  Calm
<1> USE DEF TypeOK, ConnectTypeOK, At, connectVars, netVars,
            EarlySteps, ReadySteps, DisposeSteps, Steps, HoldingSteps
<1>1. CASE Assemble(w) \/ SwallowAcquire(w) \/ RequestAcquire(w)
  BY <1>1, CalmMove DEF Assemble, SwallowAcquire, RequestAcquire, Live
<1>2. CASE RearmNot(w)
  <2>1. /\ Goto(w, "port") \/ Goto(w, "request")
        /\ UNCHANGED <<port, connections, endpoint>>
    BY <1>2 DEF RearmNot, Swallowed
  <2> QED
    BY <2>1, CalmMove DEF Live
<1>3. CASE Rearm(w)
  <2>1. /\ pc'[w] \in {"port", "request"}
        /\ \A v \in Workers \ {w} : pc'[v] = pc[v]
        /\ connections' = connections
    BY <1>3 DEF Rearm, Swallowed, Goto
  <2>2. \A s \in Sockets : Live(s)' => Live(s)
    BY <1>3, BeginDisconnectCalm DEF Rearm, Live
  <2>3. \A i \in Nat : (Coming(i)' => Coming(i)) /\ (Ending(i)' => Ending(i))
    <3>1. myRecvSize[spot[w]] \in Nat /\ spot[w] \in Places
      OBVIOUS
    <3> QED
      BY <1>3, <3>1, RecvOther DEF Rearm
  <2> QED
    BY <2>1, <2>2, <2>3 DEF Calm
<1>4. CASE HandleVersion(w) \/ HandleSignIn(w) \/ HandleNothing(w)
           \/ HandleDisposeGone(w)
  <2>1. \E step \in {"port", "forget"} : Goto(w, step)
    BY <1>4 DEF HandleVersion, HandleSignIn, HandleNothing, HandleDisposeGone
  <2>2. UNCHANGED <<port, connections, endpoint>>
    BY <1>4 DEF HandleVersion, HandleSignIn, HandleNothing, HandleDisposeGone
  <2> QED
    BY <2>1, <2>2, CalmMove DEF Live
<1>5. CASE DisposeForget(w) \/ DisposeRelease(w) \/ DisposeRestore(w)
  BY <1>5, CalmMove DEF DisposeForget, DisposeRelease, DisposeRestore, Live
<1>6. CASE HandleDispose(w)
  BY <1>6, CalmMove, DisconnectNowCalm DEF HandleDispose
<1> QED
  BY <1>1, <1>2, <1>3, <1>4, <1>5, <1>6 DEF RecvStep

LEMMA DisposeCalm ==
  ASSUME TypeOK, NEW w \in Workers, DisposeStep(w)
  PROVE  Calm
<1> USE DEF TypeOK, At, connectVars, netVars,
            EarlySteps, ReadySteps, DisposeSteps, Steps, HoldingSteps
<1>1. CASE DropAcquire(w) \/ DisposeGiveBack(w) \/ CleanAcquire(w)
  BY <1>1, CalmMove DEF DropAcquire, DisposeGiveBack, CleanAcquire, Live
<1>2. CASE Drop(w)
  BY <1>2, CalmMove, BeginDisconnectCalm DEF Drop
<1>3. CASE Clean(w) \/ Uncount(w)
  BY <1>3, CalmMove DEF Clean, Uncount, Live
<1> QED
  BY <1>1, <1>2, <1>3 DEF DisposeStep

LEMMA TerminateCalm ==
  ASSUME Terminate PROVE Calm
BY DEF Terminate, Calm, Coming, Ending, Live, EarlySteps, ReadySteps,
       DisposeSteps, netVars

LEMMA WorkerCalm ==
  ASSUME TypeOK, NEW w \in Workers, WorkerStep(w), ~ Dequeue(w)
  PROVE  Calm
BY AcceptCalm, RecvCalm, DisposeCalm, TerminateCalm
   DEF WorkerStep, Throw, SignInThrows

(* The kernel completes a receive; the client sends or leaves; AcceptEx    *)
(* fails.                                                                  *)
LEMMA NetCalm ==
  ASSUME TypeOK,
         \/ \E s \in Sockets : Deliver(s) \/ AbortRecv(s)
         \/ ClientStep /\ ~ ClientConnects
         \/ UNCHANGED vars
  PROVE  Calm
<1> USE DEF TypeOK, ConnectTypeOK, connectVars, netVars, workerVars, countVars
<1>1. CASE \E s \in Sockets : Deliver(s) \/ AbortRecv(s)
  <2>1. PICK s \in Sockets : Deliver(s) \/ AbortRecv(s)
    BY <1>1
  <2>2. PICK ok \in BOOLEAN, data \in BOOLEAN :
          Post(Received(Head(recvq[s]), ok, data))
    BY <2>1 DEF Deliver, AbortRecv, CompleteRecv
  <2>3. Head(recvq[s]) \in Receives
    BY <2>1, SeqType DEF Deliver, AbortRecv
  <2>4. /\ Received(Head(recvq[s]), ok, data) \in Completions
        /\ Received(Head(recvq[s]), ok, data).op = "RECV"
    BY <2>3 DEF Received, Receives, Completions, Operations
  <2>5. \A i \in Nat : (Coming(i)' => Coming(i)) /\ (Ending(i)' => Ending(i))
    BY <2>2, <2>4, OtherPost
  <2>6. UNCHANGED <<connections, endpoint, pc>>
    BY <2>1 DEF Deliver, AbortRecv
  <2> QED
    BY <2>5, <2>6 DEF Calm, Live
<1>2. CASE AcceptFails
  <2>1. /\ Done("ACCEPT", FALSE) \in Completions
        /\ Done("ACCEPT", FALSE).op = "ACCEPT" /\ ~ Done("ACCEPT", FALSE).ok
    BY MaxUsersNat DEF Done, Completions, Operations, Places
  <2>2. \A i \in Nat : (Coming(i)' => Coming(i)) /\ (Ending(i)' => Ending(i))
    BY <1>2, <2>1, OtherPost DEF AcceptFails
  <2>3. \A s \in Sockets : Live(s)' => Live(s)
    BY <1>2 DEF AcceptFails, Live
  <2> QED
    BY <1>2, <2>2, <2>3 DEF AcceptFails, Calm
<1>3. CASE \/ \E s \in Sockets, kind \in ClientPackets : ClientSends(s, kind)
           \/ \E s \in Sockets, how \in Partings : ClientLeaves(s, how)
           \/ UNCHANGED vars
  <2>1. UNCHANGED <<port, connections, endpoint, pc>>
    BY <1>3 DEF ClientSends, ClientLeaves, vars
  <2> QED
    BY <2>1 DEF Calm, Coming, Ending, Live
<1> QED
  BY <1>1, <1>2, <1>3 DEF ClientStep

-------------------------------------------------------------------------------
(* The end of the connection.                                              *)

LEMMA CalmEnd ==
  ASSUME OneEnd, Calm PROVE OneEnd'
BY DEF Calm, OneEnd, NoEnd, NoneLive, NoneEnding, NoneEnds, OneLive, OneEnding,
       OneEnds, Ends

(* What Dequeue does to those who follow the connection.                   *)
LEMMA DequeueMoves ==
  ASSUME TypeOK, NEW w \in Workers, Dequeue(w)
  PROVE  /\ pc[w] = "port" /\ pc'[w] = Route(Head(port))
         /\ \A v \in Workers \ {w} : pc'[v] = pc[v]
         /\ UNCHANGED <<connections, endpoint, numberUsers, seen, users,
                        myState, mySocket>>
         /\ \A i \in Nat : Coming(i)' => Coming(i + 1) /\ i + 1 \in Nat
         /\ \A i \in Nat : Ending(i)' => Ending(i + 1) /\ i + 1 \in Nat /\ i # 0
         /\ \A i \in Nat : Coming(i) /\ i # 1 => Coming(i - 1)' /\ i - 1 \in Nat
         /\ \A i \in Nat : Ending(i) /\ i # 1 => Ending(i - 1)' /\ i - 1 \in Nat
         /\ 1 \in 1..Len(port) /\ Head(port) = port[1]
         /\ Head(port) \in Completions
<1>1. port \in Seq(Completions) /\ port # <<>> /\ port' = Tail(port)
  BY DEF TypeOK, Dequeue
<1>2. \A i \in Nat : Coming(i)' => Coming(i + 1) /\ i + 1 \in Nat
  BY <1>1, AfterDequeue DEF Coming
<1>3. \A i \in Nat : Ending(i)' => Ending(i + 1) /\ i + 1 \in Nat /\ i # 0
  BY <1>1, AfterDequeue DEF Ending
<1>4. \A i \in Nat : Coming(i) /\ i # 1 => Coming(i - 1)' /\ i - 1 \in Nat
  BY <1>1, AfterDequeue DEF Coming
<1>6. \A i \in Nat : Ending(i) /\ i # 1 => Ending(i - 1)' /\ i - 1 \in Nat
  BY <1>1, AfterDequeue DEF Ending
<1>5. /\ pc[w] = "port" /\ pc'[w] = Route(Head(port))
      /\ \A v \in Workers \ {w} : pc'[v] = pc[v]
      /\ UNCHANGED <<connections, endpoint, numberUsers, seen, users,
                     myState, mySocket>>
  BY DEF TypeOK, Dequeue, At, Goto, connectVars, countVars, sessionVars,
         netVars
<1> QED
  BY <1>1, <1>2, <1>3, <1>4, <1>5, <1>6, AfterDequeue

LEMMA DequeueEnd ==
  ASSUME TypeOK, OneEnd, NEW w \in Workers, Dequeue(w)
  PROVE  OneEnd'
<1> DEFINE c == Head(port)
<1>1. /\ ~ Ends(w) /\ (Ends(w)' => c.op = "DISPOSE")
      /\ \A v \in Workers \ {w} : Ends(v)' <=> Ends(v)
      /\ \A s \in Sockets : Live(s)' <=> Live(s)
      /\ connections' = connections
      /\ c.op = "DISPOSE" => Ending(1)
  BY DequeueMoves
     DEF Ends, DisposeSteps, Route, Completions, Operations, Live, Ending
<1>2. \A i \in Nat : Ending(i)' => Ending(i + 1) /\ i + 1 \in Nat /\ i # 0
  BY DequeueMoves
<1>3. NoneEnding => NoneEnding'
  BY <1>2 DEF NoneEnding
<1>4. OneEnding => OneEnding'
  <2> SUFFICES ASSUME OneEnding, NEW i \in Nat, NEW j \in Nat,
                      Ending(i)', Ending(j)'
               PROVE  i = j
    BY DEF OneEnding
  <2>1. i + 1 = j + 1
    BY <1>2 DEF OneEnding
  <2> QED
    BY <2>1
<1>5. CASE c.op = "DISPOSE"
  <2>1. Ending(1) /\ 1 \in Nat
    BY <1>1, <1>5
  <2>2. connections # 0 /\ NoneLive /\ OneEnding /\ NoneEnds
    BY <2>1 DEF OneEnd, NoEnd, NoneEnding
  <2>3. NoneEnding'
    <3> SUFFICES ASSUME NEW i \in Nat, Ending(i)' PROVE FALSE
      BY DEF NoneEnding
    <3>1. i + 1 = 1 /\ i # 0
      BY <1>2, <2>1, <2>2 DEF OneEnding
    <3> QED
      BY <3>1
  <2>4. OneEnds' /\ NoneLive'
    BY <1>1, <2>2 DEF OneEnds, NoneEnds, NoneLive
  <2> QED
    BY <1>1, <2>2, <2>3, <2>4 DEF OneEnd
<1>6. CASE c.op # "DISPOSE"
  <2>1. \A v \in Workers : Ends(v)' <=> Ends(v)
    BY <1>1, <1>6
  <2> QED
    BY <1>1, <1>3, <1>4, <2>1
       DEF OneEnd, NoEnd, NoneLive, NoneEnds, OneLive, OneEnds
<1> QED
  BY <1>5, <1>6

LEMMA DisconnectsEnd ==
  ASSUME TypeOK, OneEnd, NEW s \in Sockets, Disconnects(s)
  PROVE  OneEnd'
<1>1. /\ Live(s) /\ connections' = connections /\ pc' = pc
      /\ \A t \in Sockets : Live(t)' => Live(t) /\ t # s
  BY DEF TypeOK, ConnectTypeOK, Disconnects, Disconnected, Live, workerVars,
         countVars, netVars
<1>2. connections # 0 /\ OneLive /\ NoneEnding /\ NoneEnds
  BY <1>1 DEF OneEnd, NoEnd, NoneLive
<1>3. NoneLive' /\ NoneEnds'
  BY <1>1, <1>2 DEF OneLive, NoneLive, NoneEnds, Ends
<1>4. OneEnding'
  <2>1. PICK ok \in BOOLEAN : Post(Done("DISPOSE", ok))
    BY FrameworkAssumption DEF Disconnects
  <2>2. Done("DISPOSE", ok) \in Completions
    BY MaxUsersNat DEF Done, Completions, Operations, Places
  <2>3. \A i \in Nat : Ending(i)' => i = Len(port) + 1
    BY <1>2, <2>1, <2>2, AfterPost DEF TypeOK, NoneEnding, Ending
  <2> QED
    BY <2>3 DEF OneEnding
<1> QED
  BY <1>1, <1>2, <1>3, <1>4 DEF OneEnd

(* What the first connection does.                                         *)
LEMMA ConnectMoves ==
  ASSUME TypeOK, ClientConnects
  PROVE  /\ connections \in Nat /\ connections' = connections + 1
         /\ UNCHANGED <<pc, numberUsers, seen, users, myState, mySocket,
                        recvq>>
         /\ \A s \in Sockets : s # connectNewbie => endpoint'[s] = endpoint[s]
         /\ connectNewbie \in Sockets => endpoint'[connectNewbie] = "connected"
         /\ \A i \in Nat : Ending(i)' => Ending(i)
         /\ \E i \in Nat : Coming(i)'
<1>1. Done("ACCEPT", TRUE) \in Completions /\ port \in Seq(Completions)
  BY MaxUsersNat DEF TypeOK, Done, Completions, Operations, Places
<1>2. Post(Done("ACCEPT", TRUE))
  BY DEF ClientConnects
<1>3. \A i \in Nat : Ending(i)' => Ending(i)
  BY <1>1, <1>2, AfterPost DEF Ending, Done
<1>4. \E i \in Nat : Coming(i)'
  <2> DEFINE i == Len(port) + 1
  <2>1. i \in 1..Len(port') /\ port'[i] = Done("ACCEPT", TRUE)
    BY <1>1, <1>2, AfterPost
  <2>2. i \in Nat
    BY <1>1
  <2> HIDE DEF i
  <2> QED
    BY <2>1, <2>2 DEF Coming, Done
<1>5. /\ connections \in Nat /\ connections' = connections + 1
      /\ UNCHANGED <<pc, numberUsers, seen, users, myState, mySocket, recvq>>
  BY DEF TypeOK, ClientConnects, workerVars, countVars, sessionVars
<1>6. /\ \A s \in Sockets : s # connectNewbie => endpoint'[s] = endpoint[s]
      /\ connectNewbie \in Sockets => endpoint'[connectNewbie] = "connected"
  BY DEF TypeOK, ConnectTypeOK, ClientConnects, ClientArrives
<1> QED
  BY <1>3, <1>4, <1>5, <1>6

LEMMA ConnectEnd ==
  ASSUME TypeOK, OneEnd, connections = 0, ClientConnects
  PROVE  OneEnd'
<1>1. NoEnd
  BY DEF OneEnd
<1>2. connections' # 0
  BY ConnectMoves
<1>3. \A s \in Sockets : Live(s)' => s = connectNewbie
  BY <1>1, ConnectMoves DEF NoEnd, NoneLive, Live
<1>4. OneLive' /\ NoneEnding' /\ NoneEnds'
  BY <1>1, <1>3, ConnectMoves
     DEF NoEnd, OneLive, NoneEnding, NoneEnds, Ends
<1> QED
  BY <1>2, <1>4 DEF OneEnd

-------------------------------------------------------------------------------
(* Its beginning.                                                          *)

(* Before it is counted no receive is outstanding or completed, and only   *)
(* its own completion brings one.                                          *)
LEMMA EarlyReceives ==
  ASSUME Single, connections <= 1, Arriving \/ Storing
  PROVE  /\ NonePending
         /\ \A i \in Nat : Queued(i) => Coming(i)
<1> USE DEF EarlySteps, ReadySteps, ReceiveSteps
<1>1. OneSource
  BY DEF Single
<1>2. CASE connections = 0
  BY <1>1, <1>2 DEF OneSource, NoneQueued
<1>3. CASE ~ NoneComing
  <2>1. PICK i \in Nat : Coming(i)
    BY <1>3 DEF NoneComing
  <2>2. Queued(i)
    BY <2>1 DEF Coming, Queued, Carries
  <2>3. OneQueued /\ NonePending
    BY <1>1, <2>2 DEF OneSource, NoneQueued
  <2> QED
    BY <2>1, <2>2, <2>3 DEF OneQueued
<1>4. CASE \E w \in Workers : Owed(w)
  BY <1>1, <1>4 DEF OneSource, NoneOwed, NoneQueued
<1> QED
  BY <1>2, <1>3, <1>4 DEF Arriving, Storing, Owed

LEMMA CalmCounted ==
  ASSUME Counted, Calm, numberUsers' = numberUsers PROVE Counted'
BY DEF Calm, Counted, NoneComing, NoEnd, NoneLive, NoneEnding, NoneEnds, Ends

(* While it is not counted, only a completion of AcceptEx is handled.      *)
LEMMA EarlyDequeue ==
  ASSUME TypeOK, Single, connections <= 1, Arriving \/ Storing,
         NEW w \in Workers, Dequeue(w)
  PROVE  \/ Coming(1) /\ pc'[w] = "update"
         \/ ~ Coming(1) /\ pc'[w] = "throw"
<1> DEFINE c == Head(port)
<1>1. 1 \in 1..Len(port) /\ c = port[1] /\ pc'[w] = Route(c) /\ c \in Completions
  BY DequeueMoves
<1>2. c.op # "DISPOSE"
  BY <1>1 DEF Arriving, Storing, Uncounted, NoneEnding, Ending
<1>3. c.op # "RECV"
  <2>1. c.op = "RECV" => Queued(1)
    BY <1>1 DEF Queued, Carries
  <2> QED
    BY <1>1, <2>1, EarlyReceives DEF Coming
<1>4. c.op = "ACCEPT"
  BY <1>1, <1>2, <1>3 DEF Completions, Operations
<1> QED
  BY <1>1, <1>4 DEF Coming, Route

(* Where a worker is says which steps it can take.                         *)
LEMMA WorkerAt ==
  ASSUME NEW w \in Workers, WorkerStep(w)
  PROVE  /\ pc[w] # "gone"
         /\ pc[w] = "store" => StoreUsers(w)
         /\ pc[w] \in {"port", "throw"} => Dequeue(w) \/ Throw(w)
         /\ pc[w] \in ReadySteps =>
              \/ AcceptLoad(w) \/ AcceptPop(w) \/ AcceptRearm(w) \/ Admit(w)
              \/ Refuse(w) \/ SeekRead(w) \/ SeekNewbiePlace(w)
              \/ NoPlace(w) \/ Claim(w)
              \/ Ready(w)
<1> USE DEF At, Handling, ReadySteps
<1>1. CASE Dequeue(w) \/ Throw(w) \/ SignInThrows(w)
  BY <1>1 DEF Dequeue, Throw, SignInThrows
<1>2. CASE AcceptStep(w)
  <2>1. CASE StoreUsers(w) \/ BeginRecv(w)
    BY <2>1 DEF StoreUsers, BeginRecv
  <2>2. CASE ~ (StoreUsers(w) \/ BeginRecv(w))
    BY <1>2, <2>2 DEF AcceptStep, AcceptLoad, AcceptPop, AcceptRearm, Admit,
                      Refuse, SeekRead, SeekNewbiePlace, NoPlace, Claim, Ready
  <2> QED
    BY <2>1, <2>2
<1>3. CASE RecvStep(w)
  BY <1>3 DEF RecvStep, Assemble, SwallowAcquire, RearmNot, Rearm,
              RequestAcquire, HandleVersion, HandleSignIn, HandleNothing,
              HandleDisposeGone, DisposeForget, HandleDispose, DisposeRelease,
              DisposeRestore
<1>4. CASE DisposeStep(w)
  BY <1>4 DEF DisposeStep, DropAcquire, Drop, DisposeGiveBack, CleanAcquire,
              Clean, Uncount
<1> QED
  BY <1>1, <1>2, <1>3, <1>4 DEF WorkerStep

(* A handler ends the program before the connection is counted.            *)
LEMMA EarlyThrow ==
  ASSUME Single, connections <= 1, Arriving \/ Storing, NEW w \in Workers,
         Throw(w)
  PROVE  Ended'
<1>1. /\ \A v \in Workers : pc'[v] = "gone"
      /\ UNCHANGED <<numberUsers, recvq>>
  BY DEF Throw, Terminate, countVars, netVars
<1>2. numberUsers = 0 /\ NonePending
  BY EarlyReceives DEF Arriving, Storing, Uncounted
<1> QED
  BY <1>1, <1>2 DEF Ended, NonePending, Pending

LEMMA ArrivingStep ==
  ASSUME TypeOK, Single, connections <= 1, Arriving, NEW w \in Workers,
         WorkerStep(w)
  PROVE  Phase'
<1>1. /\ numberUsers = 0 /\ numberUsers < MaxUsers
      /\ \E p \in Places : seen[w][p] # "taken"
  <2>1. 0 \in Places
    BY MaxUsersNat DEF Places
  <2> QED
    BY <2>1, MaxUsersNat DEF Arriving, Uncounted, NoneTaken
<1>2. CASE Dequeue(w)
  <2>1. Uncounted'
    BY <1>2, DequeueMoves DEF Arriving, Uncounted, NoneEnding
  <2>2. /\ \A p \in Places : myState'[p] = "NONE" /\ mySocket'[p] = NULL
        /\ NoneTaken'
    BY <1>2, DequeueMoves DEF Arriving, NoneTaken
  <2>3. pc'[w] \in {"update", "throw"}
    BY <1>2, EarlyDequeue
  <2>4. \A v \in Workers : pc'[v] \in ReadySteps \cup {"port", "throw"}
    BY <1>2, <2>3, DequeueMoves DEF Arriving, ReadySteps
  <2>5. \/ connections' = 0 \/ ~ NoneComing'
        \/ \E v \in Workers : pc'[v] \in ReadySteps
    <3>1. CASE Coming(1)
      BY <1>2, <3>1, EarlyDequeue DEF ReadySteps
    <3>2. CASE ~ Coming(1)
      <4>1. CASE connections = 0
        BY <1>2, <4>1, DequeueMoves
      <4>2. CASE ~ NoneComing
        <5>1. PICK i \in Nat : Coming(i)
          BY <4>2 DEF NoneComing
        <5>2. Coming(i - 1)' /\ i - 1 \in Nat
          BY <1>2, <3>2, <5>1, DequeueMoves
        <5> QED
          BY <5>2 DEF NoneComing
      <4>3. CASE \E v \in Workers : pc[v] \in ReadySteps
        <5>1. PICK v \in Workers : pc[v] \in ReadySteps
          BY <4>3
        <5>2. pc'[v] = pc[v]
          BY <1>2, <5>1, DequeueMoves DEF ReadySteps
        <5> QED
          BY <5>1, <5>2
      <4> QED
        BY <4>1, <4>2, <4>3 DEF Arriving
    <3> QED
      BY <3>1, <3>2
  <2> QED
    BY <2>1, <2>2, <2>4, <2>5 DEF Phase, Arriving
<1>3. CASE Throw(w)
  BY <1>3, EarlyThrow DEF Phase
<1>4. CASE \/ AcceptLoad(w) \/ AcceptPop(w) \/ AcceptRearm(w) \/ Admit(w)
           \/ SeekRead(w) \/ SeekNewbiePlace(w) \/ Claim(w)
  <2>1. pc'[w] \in ReadySteps /\ \A v \in Workers \ {w} : pc'[v] = pc[v]
    BY <1>4 DEF TypeOK, At, Goto, AcceptLoad, AcceptPop, AcceptRearm, Admit,
                SeekRead, SeekNewbiePlace, Claim, ReadySteps, workerVars,
                countVars
  <2>2. UNCHANGED <<numberUsers, port, myState, mySocket>>
    BY <1>4 DEF AcceptLoad, AcceptPop, AcceptRearm, Admit, SeekRead,
                SeekNewbiePlace, Claim, countVars, sessionVars
  <2>3. \A s \in Sockets : endpoint'[s] # "closing"
    <3>1. UNCHANGED endpoint \/ Accept(connectNewbie)
      BY <1>4 DEF AcceptLoad, UpdateLoad, AcceptPop, UpdatePop, AcceptRearm,
                  UpdateAccept, Admit, SeekRead, SeekNewbiePlace, Claim,
                  connectVars
    <3> QED
      BY <3>1 DEF Arriving, Uncounted, Accept, TypeOK, ConnectTypeOK
  <2>4. Uncounted'
    BY <2>2, <2>3 DEF Arriving, Uncounted, NoneEnding, Ending
  <2>6. NoneTaken'
    <3>1. UNCHANGED seen \/ SeekRead(w) \/ seen' = [seen EXCEPT ![w] = Unread]
      BY <1>4 DEF AcceptLoad, AcceptPop, AcceptRearm, Admit, SeekNewbiePlace,
                  Claim, workerVars
    <3>2. CASE SeekRead(w)
      BY <3>2 DEF TypeOK, Arriving, NoneTaken, SeekRead
    <3>3. CASE seen' = [seen EXCEPT ![w] = Unread]
      BY <3>3 DEF TypeOK, Arriving, NoneTaken, Unread
    <3>4. CASE UNCHANGED seen
      BY <3>4 DEF Arriving, NoneTaken
    <3> QED
      BY <3>1, <3>2, <3>3, <3>4
  <2>5. Arriving'
    BY <2>1, <2>2, <2>4, <2>6 DEF Arriving
  <2> QED
    BY <2>5 DEF Phase
<1>5. CASE Refuse(w) \/ NoPlace(w)
  BY <1>1, <1>5 DEF Refuse, NoPlace, CanAcceptPlayer
<1>6. CASE Ready(w)
  <2>1. /\ pc[w] = "ready" /\ pc'[w] = "store" /\ users'[w] = 0
        /\ \A v \in Workers \ {w} : pc'[v] = pc[v]
        /\ UNCHANGED <<numberUsers, port, endpoint, connections>>
    BY <1>1, <1>6 DEF TypeOK, At, Goto, Ready, CanAcceptPlayer, countVars,
                      netVars
  <2>2. Owed(w)
    BY <2>1 DEF Owed, ReceiveSteps
  <2>3. connections # 0 /\ OneOwed /\ NoneQueued
    BY <2>2 DEF Single, OneSource, NoneOwed
  <2>4. NoneComing /\ NoneComing'
    BY <2>1, <2>3 DEF NoneQueued, Queued, Carries, NoneComing, Coming
  <2>5. \A v \in Workers \ {w} : pc'[v] \in {"port", "throw"}
    <3>1. \A v \in Workers \ {w} : ~ Owed(v)
      BY <2>2, <2>3 DEF OneOwed
    <3> QED
      BY <2>1, <3>1 DEF Arriving, Owed, ReceiveSteps, ReadySteps
  <2>6. Uncounted'
    BY <2>1 DEF Arriving, Uncounted, NoneEnding, Ending
  <2>7. Storing'
    BY <2>1, <2>3, <2>4, <2>5, <2>6 DEF Storing
  <2> QED
    BY <2>7 DEF Phase
<1>7. pc[w] \in ReadySteps \cup {"port", "throw"}
  BY DEF Arriving
<1> QED
  BY <1>2, <1>3, <1>4, <1>5, <1>6, <1>7, WorkerAt

LEMMA StoringStep ==
  ASSUME TypeOK, Single, connections <= 1, Storing, NEW w \in Workers,
         WorkerStep(w)
  PROVE  Phase'
<1>1. PICK u \in Workers :
        /\ pc[u] = "store" /\ users[u] = 0
        /\ \A v \in Workers \ {u} : pc[v] \in {"port", "throw"}
  BY DEF Storing
<1>2. CASE w = u
  <2>1. StoreUsers(w)
    BY <1>1, <1>2, WorkerAt
  <2>2. /\ numberUsers' = 1 /\ pc'[w] = "begin"
        /\ \A v \in Workers \ {w} : pc'[v] = pc[v]
        /\ UNCHANGED <<port, connections>>
    BY <1>1, <1>2, <2>1 DEF TypeOK, StoreUsers, Count, Goto, netVars
  <2>3. NoneComing' /\ connections' # 0
    BY <2>2 DEF Storing, NoneComing, Coming
  <2>4. \A v \in Workers : pc'[v] \notin EarlySteps
    BY <1>1, <1>2, <2>2 DEF EarlySteps, ReadySteps
  <2> QED
    BY <2>2, <2>3, <2>4 DEF Phase, Counted
<1>3. CASE w # u
  <2>1. Dequeue(w) \/ Throw(w)
    BY <1>1, <1>3, WorkerAt
  <2>2. CASE Throw(w)
    BY <2>2, EarlyThrow DEF Phase
  <2>3. CASE Dequeue(w)
    <3>1. pc'[w] = "throw"
      BY <2>3, EarlyDequeue DEF Storing, NoneComing
    <3>2. Uncounted' /\ NoneComing' /\ connections' # 0
      BY <2>3, DequeueMoves DEF Storing, Uncounted, NoneEnding, NoneComing
    <3>3. /\ pc'[u] = "store" /\ users'[u] = 0
          /\ \A v \in Workers \ {u} : pc'[v] \in {"port", "throw"}
      BY <1>1, <1>3, <2>3, <3>1, DequeueMoves
    <3> QED
      BY <3>2, <3>3 DEF Phase, Storing
  <2> QED
    BY <2>1, <2>2, <2>3
<1> QED
  BY <1>2, <1>3

(* Only AcceptPlayer and ProceedDispose store the number.                  *)
LEMMA NumberKept ==
  ASSUME NEW w \in Workers, WorkerStep(w), ~ StoreUsers(w), ~ Uncount(w)
  PROVE  numberUsers' = numberUsers
<1>1. CASE Dequeue(w) \/ Throw(w) \/ SignInThrows(w)
  BY <1>1 DEF Dequeue, Throw, SignInThrows, Terminate, countVars
<1>2. CASE AcceptStep(w)
  BY <1>2 DEF AcceptStep, AcceptLoad, AcceptPop, AcceptRearm, Admit, Refuse,
              SeekRead, SeekNewbiePlace, NoPlace, Claim, Ready, BeginRecv,
              countVars
<1>3. CASE RecvStep(w)
  BY <1>3 DEF RecvStep, Assemble, SwallowAcquire, RearmNot, Rearm,
              RequestAcquire, HandleVersion, HandleSignIn, HandleNothing,
              HandleDisposeGone, DisposeForget, HandleDispose, DisposeRelease,
              DisposeRestore, countVars
<1>4. CASE DisposeStep(w)
  BY <1>4 DEF DisposeStep, DropAcquire, Drop, DisposeGiveBack, CleanAcquire,
              Clean, countVars
<1> QED
  BY <1>1, <1>2, <1>3, <1>4 DEF WorkerStep

(* Counted, the user is counted out by the one worker that ends it.        *)
LEMMA CountedStep ==
  ASSUME TypeOK, OneEnd, Counted, NEW w \in Workers, WorkerStep(w)
  PROVE  Counted'
<1>1. CASE Dequeue(w)
  <2>1. NoneComing' /\ connections' # 0
    BY <1>1, DequeueMoves DEF Counted, NoneComing
  <2>2. pc'[w] \notin EarlySteps
    <3>1. ~ (Head(port).op = "ACCEPT" /\ Head(port).ok)
      BY <1>1, DequeueMoves DEF Counted, NoneComing, Coming
    <3> QED
      BY <1>1, <3>1, DequeueMoves
         DEF Route, Completions, Operations, EarlySteps, ReadySteps
  <2>3. \A v \in Workers : pc'[v] \notin EarlySteps
    BY <1>1, <2>2, DequeueMoves DEF Counted
  <2>4. NoEnd => NoEnd'
    <3> SUFFICES ASSUME NoEnd PROVE NoEnd'
      OBVIOUS
    <3>1. NoneEnding' /\ NoneLive'
      BY <1>1, DequeueMoves DEF NoEnd, NoneEnding, NoneLive, Live
    <3>2. Head(port).op # "DISPOSE"
      BY <1>1, DequeueMoves DEF NoEnd, NoneEnding, Ending
    <3>3. ~ Ends(w)'
      BY <1>1, <3>2, DequeueMoves
         DEF Ends, DisposeSteps, Route, Completions, Operations
    <3>4. NoneEnds'
      BY <1>1, <3>3, DequeueMoves DEF NoEnd, NoneEnds, Ends
    <3> QED
      BY <3>1, <3>4 DEF NoEnd
  <2> QED
    BY <1>1, <2>1, <2>3, <2>4, DequeueMoves DEF Counted
<1>2. CASE Uncount(w)
  <2>1. /\ Ends(w) /\ ~ Ends(w)' /\ numberUsers' = (numberUsers - 1) % UserSpan
    BY <1>2 DEF Uncount, Count, At, Goto, Ends, DisposeSteps, TypeOK
  <2>2. /\ numberUsers = 1
        /\ NoneLive /\ NoneEnding /\ OneEnds
    BY <2>1 DEF Counted, OneEnd, NoEnd, NoneEnds
  <2>3. numberUsers' = 0
    BY <2>1, <2>2, FrameworkAssumption, MaxUsersNat
  <2>4. Calm
    BY <1>2, DisposeCalm DEF DisposeStep
  <2>5. NoEnd'
    BY <2>1, <2>2, <2>4
       DEF NoEnd, NoneLive, NoneEnding, NoneEnds, OneEnds, Calm, Ends
  <2> QED
    BY <2>3, <2>4, <2>5 DEF Counted, Calm, NoneComing
<1>3. CASE ~ Dequeue(w) /\ ~ Uncount(w)
  <2>1. ~ StoreUsers(w)
    BY DEF Counted, StoreUsers, At, EarlySteps
  <2> QED
    BY <1>3, <2>1, NumberKept, WorkerCalm, CalmCounted
<1> QED
  BY <1>1, <1>2, <1>3

(* A step that touches no worker, session or number, brings no connection  *)
(* and ends none.                                                          *)
Apart ==
  /\ UNCHANGED <<numberUsers, pc, seen, users, myState, mySocket, connections>>
  /\ \A i \in Nat : Coming(i) => Coming(i)'
  /\ \A s \in Sockets : endpoint'[s] = "closing" => endpoint[s] = "closing"
  /\ NonePending => NonePending'

LEMMA ApartStep ==
  ASSUME Phase, Calm, Apart PROVE Phase'
<1> USE DEF Calm, Apart, NoneEnding, NoneComing
<1>1. Uncounted => Uncounted'
  BY DEF Uncounted
<1>2. Arriving => Arriving'
  BY <1>1 DEF Arriving, NoneTaken
<1>3. Storing => Storing'
  BY <1>1 DEF Storing
<1>4. Counted => Counted'
  BY CalmCounted
<1>5. Ended => Ended'
  BY DEF Ended, NoneLive
<1> QED
  BY <1>2, <1>3, <1>4, <1>5 DEF Phase

LEMMA NetApart ==
  ASSUME TypeOK,
         \/ \E s \in Sockets : Deliver(s) \/ AbortRecv(s)
         \/ ClientStep /\ ~ ClientConnects
         \/ UNCHANGED vars
  PROVE  Apart
<1> USE DEF TypeOK, ConnectTypeOK, workerVars, countVars, sessionVars, netVars
<1>1. CASE \E s \in Sockets : Deliver(s) \/ AbortRecv(s)
  <2>1. PICK s \in Sockets : Deliver(s) \/ AbortRecv(s)
    BY <1>1
  <2>2. PICK ok \in BOOLEAN, data \in BOOLEAN :
          Post(Received(Head(recvq[s]), ok, data))
    BY <2>1 DEF Deliver, AbortRecv, CompleteRecv
  <2>3. Head(recvq[s]) \in Receives
    BY <2>1, SeqType DEF Deliver, AbortRecv
  <2>4. Received(Head(recvq[s]), ok, data) \in Completions
    BY <2>3 DEF Received, Receives, Completions, Operations
  <2>5. \A i \in Nat : Coming(i) => Coming(i)'
    BY <2>2, <2>4, AfterPost DEF Coming
  <2>6. ~ NonePending
    <3>1. recvq[s] \in Seq(Receives) /\ recvq[s] # <<>>
      BY <2>1 DEF Deliver, AbortRecv
    <3>2. 1 \in 1..Len(recvq[s])
      BY <3>1
    <3> QED
      BY <3>2 DEF NonePending, Pending
  <2>7. UNCHANGED <<numberUsers, pc, seen, users, myState, mySocket,
                    connections, endpoint>>
    BY <2>1 DEF Deliver, AbortRecv, connectVars
  <2> QED
    BY <2>5, <2>6, <2>7 DEF Apart
<1>2. CASE AcceptFails
  <2>1. Post(Done("ACCEPT", FALSE)) /\ Done("ACCEPT", FALSE) \in Completions
    BY <1>2, MaxUsersNat DEF AcceptFails, Done, Completions, Operations, Places
  <2>2. \A i \in Nat : Coming(i) => Coming(i)'
    BY <2>1, AfterPost DEF Coming
  <2>3. \A s \in Sockets : endpoint'[s] = "closing" => endpoint[s] = "closing"
    BY <1>2 DEF AcceptFails
  <2> QED
    BY <1>2, <2>2, <2>3 DEF AcceptFails, Apart, NonePending, Pending
<1>3. CASE \/ \E s \in Sockets, kind \in ClientPackets : ClientSends(s, kind)
           \/ \E s \in Sockets, how \in Partings : ClientLeaves(s, how)
           \/ UNCHANGED vars
  <2>1. UNCHANGED <<numberUsers, pc, seen, users, myState, mySocket,
                    connections, port, endpoint, recvq>>
    BY <1>3 DEF ClientSends, ClientLeaves, vars, connectVars
  <2> QED
    BY <2>1 DEF Apart, Coming, NonePending, Pending
<1> QED
  BY <1>1, <1>2, <1>3 DEF ClientStep

(* A disconnection is done: the user was counted before it began.          *)
LEMMA DisconnectsPhase ==
  ASSUME TypeOK, Phase, NEW s \in Sockets, Disconnects(s)
  PROVE  Phase'
<1>1. /\ Live(s) /\ endpoint[s] = "closing"
      /\ UNCHANGED <<numberUsers, pc, connections, recvq>>
      /\ \A t \in Sockets : Live(t)' => Live(t)
  BY DEF TypeOK, ConnectTypeOK, Disconnects, Disconnected, Live, workerVars,
         countVars, netVars
<1>2. CASE Counted
  <2>1. numberUsers = 1
    BY <1>1, <1>2 DEF Counted, NoEnd, NoneLive
  <2>2. PICK ok \in BOOLEAN : Post(Done("DISPOSE", ok))
    BY FrameworkAssumption DEF Disconnects
  <2>3. Done("DISPOSE", ok) \in Completions
    BY MaxUsersNat DEF Done, Completions, Operations, Places
  <2>4. \A i \in Nat : Coming(i)' => Coming(i)
    <3>1. Done("DISPOSE", ok).op # "ACCEPT" /\ port \in Seq(Completions)
      BY DEF Done, TypeOK
    <3> QED
      BY <2>2, <2>3, <3>1, AfterPost DEF Coming
  <2>5. NoneComing'
    BY <1>2, <2>4 DEF Counted, NoneComing
  <2> QED
    BY <1>1, <1>2, <2>1, <2>5 DEF Phase, Counted
<1>3. CASE Ended
  <2>1. NonePending => NonePending'
    BY <1>1 DEF NonePending, Pending
  <2> QED
    BY <1>1, <1>3, <2>1 DEF Phase, Ended, NoneLive
<1> QED
  BY <1>1, <1>2, <1>3 DEF Phase, Arriving, Storing, Uncounted

(* The first connection is made: it is to be counted.                      *)
LEMMA ConnectPhase ==
  ASSUME TypeOK, Single, Phase, connections = 0, ClientConnects
  PROVE  Phase'
<1>1. NonePending
  BY DEF Single, OneSource
<1>2. CASE Arriving
  <2>1. ~ NoneComing'
    BY ConnectMoves DEF NoneComing
  <2>2. Uncounted'
    BY <1>2, ConnectMoves DEF Arriving, Uncounted, NoneEnding
  <2> QED
    BY <1>2, <2>1, <2>2, ConnectMoves DEF Phase, Arriving, NoneTaken
<1>3. CASE Ended
  BY <1>1, <1>3, ConnectMoves DEF Phase, Ended, NonePending, Pending
<1> QED
  BY <1>2, <1>3 DEF Phase, Storing, Counted

(* Connections are counted up.                                             *)
LEMMA FewerBefore ==
  ASSUME TypeOK, [Next]_vars, connections' <= 1
  PROVE  connections <= 1
<1>1. connections \in Nat
  BY DEF TypeOK
<1>2. ASSUME NEW w \in Workers, WorkerStep(w) PROVE connections' = connections
  BY <1>2, WorkerCalm, DequeueMoves DEF Calm
<1>3. ASSUME NEW s \in Sockets, KernelStep(s) PROVE connections' = connections
  BY <1>3 DEF KernelStep, Deliver, AbortRecv, Disconnects, netVars
<1>4. ASSUME ClientStep \/ UNCHANGED vars
      PROVE  connections' = connections \/ connections' = connections + 1
  BY <1>4, NetCalm, ConnectMoves DEF Calm
<1> QED
  BY <1>1, <1>2, <1>3, <1>4 DEF Next

LEMMA LifeStep ==
  TypeOK /\ Single /\ Life /\ [Next]_vars => Life'
<1> SUFFICES ASSUME TypeOK, Single, Life, [Next]_vars, connections' <= 1
             PROVE  OneEnd' /\ Phase'
  BY DEF Life
<1>1. connections \in Nat /\ connections <= 1 /\ OneEnd /\ Phase
  BY FewerBefore DEF Life, TypeOK
<1>2. ASSUME NEW w \in Workers, WorkerStep(w) PROVE OneEnd' /\ Phase'
  <2>1. OneEnd'
    BY <1>1, <1>2, WorkerCalm, CalmEnd, DequeueEnd
  <2>2. ~ Ended
    BY <1>2, WorkerAt DEF Ended
  <2>3. Phase'
    BY <1>1, <1>2, <2>2, ArrivingStep, StoringStep, CountedStep DEF Phase
  <2> QED
    BY <2>1, <2>3
<1>3. ASSUME NEW s \in Sockets, Disconnects(s) PROVE OneEnd' /\ Phase'
  BY <1>1, <1>3, DisconnectsEnd, DisconnectsPhase
<1>4. CASE ClientConnects
  <2>1. connections = 0
    BY <1>1, <1>4, ConnectMoves
  <2> QED
    BY <1>1, <1>4, <2>1, ConnectEnd, ConnectPhase
<1>5. CASE \/ \E s \in Sockets : Deliver(s) \/ AbortRecv(s)
           \/ ClientStep /\ ~ ClientConnects
           \/ UNCHANGED vars
  BY <1>1, <1>5, NetCalm, NetApart, CalmEnd, ApartStep
<1> QED
  BY <1>2, <1>3, <1>4, <1>5 DEF Next, KernelStep

LEMMA InitLife == Init => Life
<1> SUFFICES ASSUME Init PROVE OneEnd /\ Arriving
  BY DEF Life, Phase
<1>1. \A s \in Sockets : endpoint[s] \in {"accepting", "fresh"}
  BY DEF Init, ConnectInit
<1>2. port = <<>> /\ \A i \in Nat : ~ (i \in 1..Len(port))
  BY DEF Init
<1>3. OneEnd
  BY <1>1, <1>2 DEF Init, OneEnd, NoEnd, NoneLive, Live, NoneEnding, Ending,
                    NoneEnds, Ends, DisposeSteps
<1>4. Arriving
  <2>1. NoneTaken
    BY DEF Init, NoneTaken, Unread
  <2> QED
    BY <1>1, <1>2, <2>1 DEF Init, Arriving, Uncounted, NoneEnding, Ending
<1> QED
  BY <1>3, <1>4

-------------------------------------------------------------------------------
(* The socket of the connection.  While it may still be given back it is   *)
(* not in the pool, nor is the one that Update has just loaded: that is    *)
(* what GivenBackOnce, which sees the pool only, does not say.             *)
HandSteps == ReadySteps \ {"update"}

InPool(s) == \E i \in Nat : i \in 1..Len(socketsPool) /\ socketsPool[i] = s

ToGive ==
  \/ connections = 0 \/ ~ NoneLive \/ ~ NoneEnding
  \/ \E w \in Workers : pc[w] = "giveback"

PoolOnce ==
  \A i, j \in 1..Len(socketsPool) :
    socketsPool[i] # NULL =>
      /\ socketsPool[i] = socketsPool[j] => i = j
      /\ socketsPool[i] # connectNewbie

SessionsApart ==
  ToGive => \A p \in Places : mySocket[p] # NULL =>
              ~ InPool(mySocket[p]) /\ mySocket[p] # connectNewbie

HandsApart ==
  \A w \in Workers : pc[w] \in HandSteps /\ hand[w] # NULL =>
    ~ InPool(hand[w]) /\ (call[w] # "pop" => hand[w] # connectNewbie)

PoolApart == PoolOnce /\ SessionsApart /\ HandsApart

PoolLife == connections <= 1 => PoolApart

(* Push adds one socket; it keeps the pool free of duplicates if that one  *)
(* was not in it, or is the null socket.                                   *)
LEMMA PoolAfterPush ==
  ASSUME socketsPool \in Seq(Sockets \cup {NULL}), PoolOnce,
         NEW s \in Sockets \cup {NULL}, Push(s), UNCHANGED connectNewbie,
         s # NULL => ~ InPool(s) /\ s # connectNewbie
  PROVE  /\ PoolOnce'
         /\ \A t : InPool(t)' => InPool(t) \/ t = s
<1>1. /\ Len(socketsPool) \in Nat /\ Len(socketsPool') = Len(socketsPool) + 1
      /\ \A i \in 1..Len(socketsPool) : socketsPool'[i] = socketsPool[i]
      /\ socketsPool'[Len(socketsPool) + 1] = s
  BY DEF Push
<1>2. \A i \in 1..Len(socketsPool') :
        i \in 1..Len(socketsPool) \/ i = Len(socketsPool) + 1
  BY <1>1
<1>3. \A t : InPool(t)' => InPool(t) \/ t = s
  BY <1>1, <1>2 DEF InPool
<1>4. \A i \in 1..Len(socketsPool) : i \in Nat /\ InPool(socketsPool[i])
  BY <1>1 DEF InPool
<1>5. PoolOnce'
  <2> SUFFICES ASSUME NEW i \in 1..Len(socketsPool'),
                      NEW j \in 1..Len(socketsPool'), socketsPool'[i] # NULL
               PROVE  /\ socketsPool'[i] = socketsPool'[j] => i = j
                      /\ socketsPool'[i] # connectNewbie
    BY DEF PoolOnce
  <2>1. CASE i \in 1..Len(socketsPool) /\ j \in 1..Len(socketsPool)
    BY <1>1, <2>1 DEF PoolOnce
  <2>2. CASE i \in 1..Len(socketsPool) /\ j = Len(socketsPool) + 1
    <3>1. socketsPool'[i] = socketsPool[i] /\ socketsPool'[j] = s
      BY <1>1, <2>2
    <3>2. socketsPool[i] # s
      BY <1>4, <2>2, <3>1
    <3> QED
      BY <2>2, <3>1, <3>2 DEF PoolOnce
  <2>3. CASE i = Len(socketsPool) + 1 /\ j \in 1..Len(socketsPool)
    <3>1. socketsPool'[i] = s /\ socketsPool'[j] = socketsPool[j]
      BY <1>1, <2>3
    <3>2. socketsPool[j] # s
      BY <1>4, <2>3, <3>1
    <3> QED
      BY <3>1, <3>2
  <2>4. CASE i = Len(socketsPool) + 1 /\ j = Len(socketsPool) + 1
    <3>1. socketsPool'[i] = s
      BY <1>1, <2>4
    <3> QED
      BY <2>4, <3>1
  <2> QED
    BY <1>2, <2>1, <2>2, <2>3, <2>4
<1> QED
  BY <1>3, <1>5

(* The socket popped leaves the pool, and no other takes its place.        *)
LEMMA PoolAfterPop ==
  ASSUME socketsPool \in Seq(Sockets \cup {NULL}), PoolOnce,
         connectNewbie' = Popped, socketsPool' = AfterPop
  PROVE  /\ PoolOnce'
         /\ \A t : InPool(t)' => InPool(t)
         /\ \A t : t # NULL /\ ~ InPool(t) => t # connectNewbie'
<1>1. CASE socketsPool = <<>>
  BY <1>1 DEF Popped, AfterPop, PoolOnce, InPool
<1>2. CASE socketsPool # <<>>
  <2>1. /\ Len(socketsPool) \in Nat \ {0}
        /\ Len(socketsPool') = Len(socketsPool) - 1
        /\ \A i \in 1..Len(socketsPool) - 1 :
             socketsPool'[i] = socketsPool[i + 1]
        /\ connectNewbie' = socketsPool[1]
    BY <1>2 DEF Popped, AfterPop
  <2>2. \A i \in 1..Len(socketsPool') :
          /\ i \in Nat /\ i + 1 \in 1..Len(socketsPool) /\ i + 1 # 1
          /\ socketsPool'[i] = socketsPool[i + 1]
    BY <2>1
  <2>3. 1 \in 1..Len(socketsPool)
    BY <2>1
  <2>4. PoolOnce'
    <3> SUFFICES ASSUME NEW i \in 1..Len(socketsPool'),
                        NEW j \in 1..Len(socketsPool'), socketsPool'[i] # NULL
                 PROVE  /\ socketsPool'[i] = socketsPool'[j] => i = j
                        /\ socketsPool'[i] # connectNewbie'
      BY DEF PoolOnce
    <3>1. socketsPool'[i] = socketsPool'[j] => i + 1 = j + 1
      BY <2>2 DEF PoolOnce
    <3>2. socketsPool[i + 1] # socketsPool[1]
      BY <2>2, <2>3 DEF PoolOnce
    <3> QED
      BY <2>1, <2>2, <3>1, <3>2
  <2>5. \A t : InPool(t)' => InPool(t)
    <3> SUFFICES ASSUME NEW t, NEW i \in Nat,
                        i \in 1..Len(socketsPool'), socketsPool'[i] = t
                 PROVE  InPool(t)
      BY DEF InPool
    <3>1. i + 1 \in Nat /\ i + 1 \in 1..Len(socketsPool) /\ socketsPool[i + 1] = t
      BY <2>2
    <3> QED
      BY <3>1 DEF InPool
  <2> QED
    BY <2>1, <2>3, <2>4, <2>5 DEF InPool
<1> QED
  BY <1>1, <1>2

(* No socket is to be given back that was not before.                      *)
LEMMA CalmToGive ==
  ASSUME Calm PROVE ToGive' => ToGive
BY DEF Calm, ToGive, NoneLive, NoneEnding

LEMMA DequeueToGive ==
  ASSUME TypeOK, NEW w \in Workers, Dequeue(w)
  PROVE  ToGive' => ToGive
<1>1. pc'[w] = "giveback" => ~ NoneEnding
  <2>1. pc'[w] = "giveback" => Ending(1)
    BY DequeueMoves DEF Route, Completions, Operations, Ending
  <2> QED
    BY <2>1 DEF NoneEnding
<1>2. ~ NoneEnding' => ~ NoneEnding
  BY DequeueMoves DEF NoneEnding
<1>3. ~ NoneLive' => ~ NoneLive
  BY DequeueMoves DEF NoneLive, Live
<1>4. \A v \in Workers \ {w} : pc'[v] = pc[v]
  BY DequeueMoves
<1>5. connections' = connections
  BY DequeueMoves
<1> QED
  BY <1>1, <1>2, <1>3, <1>4, <1>5 DEF ToGive

LEMMA NetToGive ==
  ASSUME TypeOK, connections' <= 1,
         (\E s \in Sockets : KernelStep(s)) \/ ClientStep \/ UNCHANGED vars
  PROVE  ToGive' => ToGive
<1>1. ASSUME NEW s \in Sockets, Disconnects(s) PROVE ToGive
  BY <1>1 DEF Disconnects, ToGive, NoneLive, Live
<1>2. CASE ClientConnects
  <2>1. connections = 0
    BY <1>2, ConnectMoves
  <2> QED
    BY <2>1 DEF ToGive
<1> QED
  BY <1>1, <1>2, NetCalm, CalmToGive DEF KernelStep

(* Steps that leave the pool and the acceptor alone.                       *)
PoolKept ==
  /\ UNCHANGED <<socketsPool, connectNewbie>>
  /\ \A p \in Places : mySocket'[p] \in {mySocket[p], NULL}
  /\ \A v \in Workers : pc'[v] \in HandSteps =>
       pc[v] \in HandSteps /\ hand'[v] = hand[v] /\ call'[v] = call[v]

LEMMA KeptPool ==
  ASSUME PoolApart, PoolKept, ToGive' => ToGive PROVE PoolApart'
<1>1. PoolOnce'
  BY DEF PoolApart, PoolKept, PoolOnce
<1>2. \A t : InPool(t)' <=> InPool(t)
  BY DEF PoolKept, InPool
<1>3. SessionsApart'
  BY <1>2 DEF PoolApart, PoolKept, SessionsApart
<1>4. HandsApart'
  BY <1>2 DEF PoolApart, PoolKept, HandsApart
<1> QED
  BY <1>1, <1>3, <1>4 DEF PoolApart

LEMMA AcceptKept ==
  ASSUME TypeOK, NEW w \in Workers,
         \/ Admit(w) \/ SeekRead(w) \/ SeekNewbiePlace(w) \/ NoPlace(w)
         \/ Claim(w)
         \/ StoreUsers(w) \/ BeginRecv(w)
  PROVE  PoolKept
<1> USE DEF TypeOK, ConnectTypeOK, At, Goto, connectVars, HandSteps,
            ReadySteps, PoolKept
<1>1. UNCHANGED <<socketsPool, connectNewbie, mySocket, call>>
  BY DEF Admit, SeekRead, SeekNewbiePlace, NoPlace, Claim, StoreUsers,
         BeginRecv, sessionVars
<1>2. CASE Admit(w) \/ SeekRead(w) \/ SeekNewbiePlace(w) \/ Claim(w)
  BY <1>1, <1>2 DEF Admit, SeekRead, SeekNewbiePlace, Claim
<1>3. CASE NoPlace(w)
  BY <1>1, <1>3 DEF NoPlace, LetGo
<1>4. CASE StoreUsers(w) \/ BeginRecv(w)
  BY <1>1, <1>4 DEF StoreUsers, BeginRecv
<1> QED
  BY <1>2, <1>3, <1>4

LEMMA RecvKept ==
  ASSUME TypeOK, NEW w \in Workers, RecvStep(w), ~ HandleDispose(w)
  PROVE  PoolKept
<1> USE DEF TypeOK, ConnectTypeOK, At, Goto, connectVars, sessionVars,
            HandSteps, ReadySteps, PoolKept
<1>1. CASE Assemble(w) \/ SwallowAcquire(w) \/ RequestAcquire(w)
  BY <1>1 DEF Assemble, SwallowAcquire, RequestAcquire
<1>2. CASE RearmNot(w) \/ Rearm(w)
  <2>1. /\ UNCHANGED <<socketsPool, connectNewbie, hand, call, mySocket>>
        /\ pc'[w] \in {"port", "request"}
        /\ \A v \in Workers \ {w} : pc'[v] = pc[v]
    BY <1>2 DEF RearmNot, Rearm, Swallowed
  <2> QED
    BY <2>1
<1>3. CASE HandleVersion(w) \/ HandleSignIn(w) \/ HandleNothing(w)
  BY <1>3 DEF HandleVersion, HandleSignIn, HandleNothing
<1>4. CASE HandleDisposeGone(w) \/ DisposeForget(w) \/ DisposeRelease(w)
           \/ DisposeRestore(w)
  BY <1>4 DEF HandleDisposeGone, DisposeForget, DisposeRelease, DisposeRestore
<1> QED
  BY <1>1, <1>2, <1>3, <1>4 DEF RecvStep

LEMMA DisposeKept ==
  ASSUME TypeOK, NEW w \in Workers, DisposeStep(w), ~ DisposeGiveBack(w)
  PROVE  PoolKept
<1> USE DEF TypeOK, ConnectTypeOK, At, Goto, connectVars, sessionVars,
            HandSteps, ReadySteps, PoolKept
<1>1. CASE DropAcquire(w) \/ Drop(w) \/ CleanAcquire(w) \/ Uncount(w)
  BY <1>1 DEF DropAcquire, Drop, CleanAcquire, Uncount
<1>2. CASE Clean(w)
  BY <1>2 DEF Clean, Cleanup
<1> QED
  BY <1>1, <1>2 DEF DisposeStep

LEMMA PortKept ==
  ASSUME TypeOK, NEW w \in Workers, Dequeue(w) \/ Throw(w) \/ SignInThrows(w)
  PROVE  PoolKept
<1> USE DEF connectVars, sessionVars, HandSteps, ReadySteps, PoolKept
<1>1. CASE Dequeue(w)
  <2>1. pc'[w] \notin HandSteps
    BY <1>1, DequeueMoves DEF Route, Completions, Operations
  <2> QED
    BY <1>1, <2>1, DequeueMoves DEF Dequeue
<1>2. CASE Throw(w) \/ SignInThrows(w)
  BY <1>2 DEF Throw, SignInThrows, Terminate
<1> QED
  BY <1>1, <1>2

LEMMA NetKept ==
  ASSUME (\E s \in Sockets : KernelStep(s)) \/ ClientStep \/ UNCHANGED vars
  PROVE  PoolKept
<1>1. UNCHANGED <<socketsPool, connectNewbie, hand, call, mySocket, pc>>
  BY DEF KernelStep, Deliver, AbortRecv, Disconnects, ClientStep,
         ClientConnects, ClientArrives, AcceptFails, ClientSends, ClientLeaves,
         vars, connectVars, sessionVars, workerVars, countVars
<1> QED
  BY <1>1 DEF PoolKept

(* Update takes the connected socket and pops the next.                    *)
LEMMA UpdateApart ==
  ASSUME TypeOK, OneCompletion, Single, OneEnd, Phase, connections <= 1,
         PoolApart, NEW w \in Workers,
         AcceptLoad(w) \/ AcceptPop(w) \/ AcceptRearm(w)
  PROVE  PoolApart'
<1> USE DEF TypeOK, ConnectTypeOK, At, Goto
<1>1. pc[w] \in {"update", "updating"} /\ mySocket' = mySocket
  BY DEF AcceptLoad, AcceptPop, AcceptRearm, sessionVars
<1>2. \A v \in Workers \ {w} : pc'[v] = pc[v] /\ pc[v] \notin HandSteps
  <2>1. OneOwed
    BY <1>1 DEF Single, OneSource, NoneOwed, Owed, ReceiveSteps
  <2>2. \A v \in Workers \ {w} : pc[v] \notin HandSteps
    BY <1>1, <2>1 DEF OneOwed, Owed, ReceiveSteps, HandSteps, ReadySteps
  <2> QED
    BY <2>2 DEF AcceptLoad, AcceptPop, AcceptRearm, workerVars, countVars
<1>3. \A p \in Places : mySocket[p] = NULL
  BY <1>1 DEF Phase, Arriving, Storing, Counted, Ended, EarlySteps, ReadySteps
<1>4. SessionsApart'
  BY <1>1, <1>3 DEF SessionsApart
<1>5. CASE AcceptLoad(w)
  <2>1. /\ UNCHANGED <<socketsPool, connectNewbie>>
        /\ hand'[w] = connectNewbie /\ call'[w] = "pop"
    BY <1>5 DEF AcceptLoad, UpdateLoad
  <2>2. PoolOnce'
    BY <2>1 DEF PoolApart, PoolOnce
  <2>3. connectNewbie # NULL => ~ InPool(connectNewbie)'
    BY <2>1 DEF PoolApart, PoolOnce, InPool
  <2>4. hand'[w] # NULL => ~ InPool(hand[w])'
    BY <2>1, <2>3 DEF InPool
  <2>5. HandsApart'
    BY <1>2, <2>1, <2>4 DEF HandsApart
  <2> QED
    BY <1>4, <2>2, <2>5 DEF PoolApart
<1>6. CASE AcceptPop(w)
  <2>1. /\ connectNewbie' = Popped /\ socketsPool' = AfterPop
        /\ hand' = hand /\ call'[w] = "accept" /\ pc[w] = "updating"
    BY <1>6 DEF AcceptPop, UpdatePop
  <2>2. /\ PoolOnce'
        /\ \A t : InPool(t)' => InPool(t)
        /\ \A t : t # NULL /\ ~ InPool(t) => t # connectNewbie'
    BY <2>1, PoolAfterPop DEF PoolApart
  <2>3. hand[w] # NULL => ~ InPool(hand[w])
    BY <2>1 DEF PoolApart, HandsApart, HandSteps, ReadySteps
  <2>4. hand'[w] # NULL => ~ InPool(hand[w])' /\ hand'[w] # connectNewbie'
    BY <2>1, <2>2, <2>3 DEF InPool
  <2>5. HandsApart'
    BY <1>2, <2>4 DEF HandsApart
  <2> QED
    BY <1>4, <2>2, <2>5 DEF PoolApart
<1>7. CASE AcceptRearm(w)
  <2>1. /\ UNCHANGED <<socketsPool, connectNewbie, hand>>
        /\ call[w] = "accept" /\ pc[w] = "updating"
    BY <1>7 DEF AcceptRearm, UpdateAccept
  <2>2. PoolOnce'
    BY <2>1 DEF PoolApart, PoolOnce
  <2>3. hand[w] # NULL => ~ InPool(hand[w]) /\ hand[w] # connectNewbie
    BY <2>1 DEF PoolApart, HandsApart, HandSteps, ReadySteps
  <2>4. hand'[w] # NULL => ~ InPool(hand[w])' /\ hand'[w] # connectNewbie'
    BY <2>1, <2>3 DEF InPool
  <2>5. HandsApart'
    BY <1>2, <2>4 DEF HandsApart
  <2> QED
    BY <1>4, <2>2, <2>5 DEF PoolApart
<1> QED
  BY <1>5, <1>6, <1>7

(* Ready passes the socket to the session.                                 *)
LEMMA ReadyApart ==
  ASSUME TypeOK, OneCompletion, Single, PoolApart, NEW w \in Workers, Ready(w)
  PROVE  PoolApart'
<1> USE DEF TypeOK, ConnectTypeOK, At, Goto
<1>1. /\ UNCHANGED <<socketsPool, connectNewbie, call>>
      /\ pc[w] = "ready" /\ pc'[w] \in {"store", "port"}
      /\ \A v \in Workers \ {w} : pc'[v] = pc[v] /\ hand'[v] = hand[v]
  BY DEF Ready, LetGo
<1>2. call[w] = "none"
  BY <1>1 DEF OneCompletion
<1>3. hand[w] # NULL => ~ InPool(hand[w]) /\ hand[w] # connectNewbie
  BY <1>1, <1>2 DEF PoolApart, HandsApart, HandSteps, ReadySteps
<1>4. \A t : InPool(t)' <=> InPool(t)
  BY <1>1 DEF InPool
<1>5. PoolOnce'
  BY <1>1 DEF PoolApart, PoolOnce
<1>6. SessionsApart'
  <2>1. \A p \in Places : mySocket'[p] \in {mySocket[p], hand[w]}
    BY DEF Ready
  <2>2. ToGive' => ToGive
    BY AcceptCalm, CalmToGive DEF AcceptStep
  <2> QED
    BY <1>1, <1>3, <1>4, <2>1, <2>2 DEF PoolApart, SessionsApart
<1>7. HandsApart'
  BY <1>1, <1>4 DEF PoolApart, HandsApart, HandSteps, ReadySteps
<1> QED
  BY <1>5, <1>6, <1>7 DEF PoolApart

(* CS_DISPOSE pushes the null socket.                                      *)
LEMMA DisposeNowApart ==
  ASSUME TypeOK, PoolApart, NEW w \in Workers, HandleDispose(w)
  PROVE  PoolApart'
<1> USE DEF TypeOK, ConnectTypeOK, At, Goto
<1>1. /\ UNCHANGED <<connectNewbie, call, hand>>
      /\ Push(NULL) /\ pc'[w] = "unlock"
      /\ \A v \in Workers \ {w} : pc'[v] = pc[v]
      /\ \A p \in Places : mySocket'[p] \in {mySocket[p], NULL}
  BY DEF HandleDispose, Cleanup
<1>2. PoolOnce' /\ \A t : InPool(t)' => InPool(t) \/ t = NULL
  BY <1>1, PoolAfterPush DEF PoolApart
<1>3. ToGive' => ToGive
  BY RecvCalm, CalmToGive DEF RecvStep
<1>4. SessionsApart'
  BY <1>1, <1>2, <1>3 DEF PoolApart, SessionsApart
<1>5. HandsApart'
  BY <1>1, <1>2 DEF PoolApart, HandsApart, HandSteps, ReadySteps
<1> QED
  BY <1>2, <1>4, <1>5 DEF PoolApart

(* ProceedDispose gives the socket back, and no one else will.             *)
LEMMA GiveBackApart ==
  ASSUME TypeOK, Single, OneEnd, Phase, PoolApart, NEW w \in Workers,
         DisposeGiveBack(w)
  PROVE  PoolApart'
<1> USE DEF TypeOK, ConnectTypeOK, At, Goto
<1> DEFINE s == mySocket[spot[w]]
<1>1. /\ pc[w] = "giveback" /\ pc'[w] = "cleaning" /\ Push(s)
      /\ \A v \in Workers \ {w} : pc'[v] = pc[v]
      /\ UNCHANGED <<connectNewbie, mySocket, endpoint, hand, call,
                     connections, port>>
  BY DEF DisposeGiveBack, sessionVars, netVars
<1>2. s \in Sockets \cup {NULL} /\ spot[w] \in Places
  OBVIOUS
<1>3. s # NULL => ~ InPool(s) /\ s # connectNewbie
  BY <1>1, <1>2 DEF PoolApart, SessionsApart, ToGive
<1>4. PoolOnce' /\ \A t : InPool(t)' => InPool(t) \/ t = s
  <2> HIDE DEF s
  <2> QED
    BY <1>1, <1>2, <1>3, PoolAfterPush DEF PoolApart
<1>5. ~ ToGive'
  <2>1. Ends(w)
    BY <1>1 DEF Ends, DisposeSteps
  <2>2. connections # 0 /\ NoneLive /\ NoneEnding /\ OneEnds
    BY <2>1 DEF OneEnd, NoEnd, NoneEnds
  <2>3. \A v \in Workers : pc'[v] # "giveback"
    BY <1>1, <2>1, <2>2 DEF OneEnds, Ends, DisposeSteps
  <2> QED
    BY <1>1, <2>2, <2>3 DEF ToGive, NoneLive, Live, NoneEnding, Ending
<1>6. HandsApart'
  <2>1. \A v \in Workers : pc'[v] \notin HandSteps
    <3>1. Counted
      BY <1>1 DEF Phase, Arriving, Storing, Ended, ReadySteps
    <3> QED
      BY <1>1, <3>1 DEF Counted, EarlySteps, HandSteps, ReadySteps
  <2> QED
    BY <2>1 DEF HandsApart
<1> QED
  BY <1>4, <1>5, <1>6 DEF PoolApart, SessionsApart

LEMMA PoolStep ==
  TypeOK /\ OneCompletion /\ Single /\ Life /\ PoolLife /\ [Next]_vars
    => PoolLife'
<1> SUFFICES ASSUME TypeOK, OneCompletion, Single, Life, PoolLife, [Next]_vars,
                    connections' <= 1
             PROVE  PoolApart'
  BY DEF PoolLife
<1>1. connections <= 1 /\ OneEnd /\ Phase /\ PoolApart
  BY FewerBefore DEF Life, PoolLife
<1>2. ASSUME NEW w \in Workers, WorkerStep(w) PROVE PoolApart'
  <2>1. CASE AcceptLoad(w) \/ AcceptPop(w) \/ AcceptRearm(w)
    BY <1>1, <2>1, UpdateApart
  <2>2. CASE Ready(w)
    BY <1>1, <2>2, ReadyApart
  <2>3. CASE Refuse(w)
    <3>1. Arriving
      BY <1>1, <2>3 DEF Phase, Storing, Counted, Ended, Refuse, At, EarlySteps,
                        ReadySteps
    <3> QED
      BY <2>3, <3>1, MaxUsersNat DEF Arriving, Uncounted, Refuse,
                                     CanAcceptPlayer
  <2>4. CASE HandleDispose(w)
    BY <1>1, <2>4, DisposeNowApart
  <2>5. CASE DisposeGiveBack(w)
    BY <1>1, <2>5, GiveBackApart
  <2>6. CASE ~ \/ AcceptLoad(w) \/ AcceptPop(w) \/ AcceptRearm(w) \/ Ready(w)
               \/ Refuse(w) \/ HandleDispose(w) \/ DisposeGiveBack(w)
    <3>1. PoolKept
      BY <1>2, <2>6, AcceptKept, RecvKept, DisposeKept, PortKept
         DEF WorkerStep, AcceptStep
    <3>2. ToGive' => ToGive
      BY <1>2, WorkerCalm, CalmToGive, DequeueToGive
    <3> QED
      BY <1>1, <3>1, <3>2, KeptPool
  <2> QED
    BY <2>1, <2>2, <2>3, <2>4, <2>5, <2>6
<1>3. CASE (\E s \in Sockets : KernelStep(s)) \/ ClientStep \/ UNCHANGED vars
  BY <1>1, <1>3, NetKept, NetToGive, KeptPool
<1> QED
  BY <1>2, <1>3 DEF Next

LEMMA InitPool == Init => PoolLife
<1> SUFFICES ASSUME Init PROVE PoolApart
  BY DEF PoolLife
<1>1. PICK pool \in Pools : socketsPool = Tail(pool) /\ connectNewbie = Head(pool)
  BY DEF Init, ConnectInit
<1>2. /\ MaxUsers \in Nat \ {0} /\ pool \in [1..MaxUsers -> Sockets]
      /\ \A i, j \in 1..MaxUsers : pool[i] = pool[j] => i = j
  BY MaxUsersNat DEF Pools, MaxUsers
<1>3. pool \in Seq(Sockets) /\ Len(pool) = MaxUsers
  BY <1>2
<1>4. /\ Len(socketsPool) = MaxUsers - 1 /\ connectNewbie = pool[1]
      /\ \A i \in 1..Len(socketsPool) : socketsPool[i] = pool[i + 1]
  BY <1>1, <1>2, <1>3
<1>5. PoolOnce
  BY <1>2, <1>4 DEF PoolOnce
<1> QED
  BY <1>5 DEF Init, ConnectInit, PoolApart, SessionsApart, HandsApart,
              HandSteps, ReadySteps

(* As long as one connection is made, its socket is pushed once at most,   *)
(* whichever of ProceedDispose and CS_DISPOSE end it, and never while it   *)
(* is the one being accepted on.                                           *)
THEOREM FrameworkGivenBackOnce == Spec => []GivenBackOnce
<1>1. PoolLife => GivenBackOnce
  BY DEF PoolLife, PoolApart, PoolOnce, GivenBackOnce
<1> QED
  BY <1>1, InitPool, PoolStep, InitLife, LifeStep, InitSingle, SingleStep,
     InitOneCompletion, OneCompletionStep, FrameworkTyping, PTL DEF Spec
===============================================================================
