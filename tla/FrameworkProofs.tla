---------------------------- MODULE FrameworkProofs ----------------------------
(***************************************************************************)
(* Proofs about Framework, for any number of sockets, sessions, workers,   *)
(* packets and connections: typing, and the discipline of the locks that   *)
(* the runs check on two workers and two or three sessions.                *)
(***************************************************************************)
EXTENDS Framework, FiniteSetTheorems, TLAPS

(* AcceptPlayer stores users_number + 1 only when users_number < MAX_USERS.*)
StoreBound == \A w \in Workers : pc[w] = "store" => users[w] < MaxUsers

TypeInv == TypeOK /\ StoreBound

-------------------------------------------------------------------------------
(* Facts about constants and about what the handlers share.                *)

LEMMA MaxUsersNat == MaxUsers \in Nat \ {0}
BY ConnectAssumption, FS_CardinalityType, FS_EmptySet DEF MaxUsers

(* Unsigned decrement stays in range.                                      *)
LEMMA ModType ==
  ASSUME NEW n \in Int
  PROVE  n % UserSpan \in 0..UserSpan - 1
BY FrameworkAssumption, MaxUsersNat

(* A sequence gains or loses an element of its type.                       *)
LEMMA SeqType ==
  ASSUME NEW T, NEW q \in Seq(T)
  PROVE  /\ \A x \in T : Append(q, x) \in Seq(T)
         /\ q # <<>> => Head(q) \in T /\ Tail(q) \in Seq(T)
OBVIOUS

(* Every completion has a handler, which does not start in a lock.         *)
LEMMA RouteType ==
  ASSUME NEW c \in Completions
  PROVE  Route(c) \in Steps \ HoldingSteps /\ Route(c) # "store"
BY DEF Route, Completions, Operations, Steps, HoldingSteps

LEMMA PushType ==
  ASSUME socketsPool \in Seq(Sockets \cup {NULL}),
         NEW s \in Sockets \cup {NULL}, Push(s)
  PROVE  socketsPool' \in Seq(Sockets \cup {NULL})
BY SeqType DEF Push

LEMMA PopType ==
  ASSUME socketsPool \in Seq(Sockets \cup {NULL})
  PROVE  /\ Popped \in Sockets \cup {NULL}
         /\ AfterPop \in Seq(Sockets \cup {NULL})
BY SeqType DEF Popped, AfterPop

(* A receive completes or is queued, and its packet goes into a buffer.    *)
LEMMA CompleteRecvType ==
  ASSUME TypeOK, NEW s \in Sockets, NEW r \in Receives, CompleteRecv(s, r)
  PROVE  /\ port' \in Seq(Completions)
         /\ inbox' \in [Sockets -> Seq(Packets)]
         /\ myData' \in [Places -> [Offsets -> Packets \cup {Blank}]]
<1> USE DEF TypeOK, CompleteRecv
<1>1. \A data \in BOOLEAN : Received(r, TRUE, data) \in Completions
  BY DEF Received, Completions, Receives, Operations
<1>2. port' \in Seq(Completions)
  BY <1>1, SeqType DEF Post
<1>3. inbox[s] # <<>> =>
        Head(inbox[s]) \in Packets /\ Tail(inbox[s]) \in Seq(Packets)
  BY SeqType
<1>4. inbox' \in [Sockets -> Seq(Packets)]
  BY <1>3
<1>5. myData' \in [Places -> [Offsets -> Packets \cup {Blank}]]
  <2>1. CASE myData' = myData
    BY <2>1
  <2>2. CASE myData' # myData
    <3>1. /\ Head(inbox[s]) \in Packets
          /\ myData' = [myData EXCEPT ![r.place][r.at] = Head(inbox[s])]
      BY <1>3, <2>2
    <3>2. [myData[r.place] EXCEPT ![r.at] = Head(inbox[s])]
            \in [Offsets -> Packets \cup {Blank}]
      BY <3>1 DEF Receives
    <3> QED
      BY <3>1, <3>2 DEF Receives
  <2> QED
    BY <2>1, <2>2
<1> QED
  BY <1>2, <1>4, <1>5

LEMMA RecvType ==
  ASSUME TypeOK, NEW p \in Places, NEW probe \in BOOLEAN, NEW at \in Nat,
         Recv(p, probe, at)
  PROVE  /\ port' \in Seq(Completions)
         /\ recvq' \in [Sockets -> Seq(Receives)]
         /\ inbox' \in [Sockets -> Seq(Packets)]
         /\ myData' \in [Places -> [Offsets -> Packets \cup {Blank}]]
<1> DEFINE r == [place |-> p, probe |-> probe, at |-> at]
<1>1. r \in Receives
  BY DEF Receives
<1>2. CASE RecvResult(p) = "done"
  <2>1. CompleteRecv(mySocket[p], r) /\ UNCHANGED recvq
    BY <1>2 DEF Recv
  <2>2. mySocket[p] \in Sockets
    BY <1>2 DEF RecvResult, TypeOK
  <2> QED
    BY <1>1, <2>1, <2>2, CompleteRecvType DEF TypeOK
<1>3. CASE RecvResult(p) = "pending"
  <2>1. /\ recvq' = [recvq EXCEPT ![mySocket[p]] = Append(@, r)]
        /\ UNCHANGED <<port, inbox, myData>>
    BY <1>3 DEF Recv
  <2>2. mySocket[p] \in Sockets
    BY <1>3 DEF RecvResult, TypeOK
  <2>3. Append(recvq[mySocket[p]], r) \in Seq(Receives)
    BY <1>1, <2>2, SeqType DEF TypeOK
  <2> QED
    BY <2>1, <2>2, <2>3 DEF TypeOK
<1>4. CASE RecvResult(p) = "error"
  BY <1>4 DEF Recv, TypeOK
<1> QED
  BY <1>2, <1>3, <1>4 DEF Recv

(* What Swallow reads is a packet, perhaps of zeros.                       *)
LEMMA HeaderType ==
  ASSUME TypeOK, NEW p \in Places
  PROVE  Header(p) \in Packets \cup {Blank}
BY DEF Header, TypeOK

(* An answer is recorded only to a packet a socket sent.                   *)
LEMMA ReplyType ==
  ASSUME TypeOK, NEW p \in Places, myLastPacket[p].kind \in Kinds, Reply(p)
  PROVE  replies' \subseteq Sockets \X (Sockets \cup {NULL})
<1>1. myLastPacket[p] \in Packets
  BY DEF TypeOK, Blank, Kinds
<1> QED
  BY <1>1 DEF Reply, TypeOK, Packets

-------------------------------------------------------------------------------
(* Typing.                                                                 *)

LEMMA InitTyping == Init => TypeInv
<1> SUFFICES ASSUME Init PROVE TypeInv
  OBVIOUS
<1> USE ConnectAssumption, FrameworkAssumption, MaxUsersNat DEF Init
<1>1. ConnectTypeOK
  <2>1. PICK pool \in Pools :
          /\ socketsPool = Tail(pool) /\ connectNewbie = Head(pool)
          /\ connectWorker = "pending"
          /\ endpoint = [s \in Sockets |->
                           IF s = Head(pool) THEN "accepting" ELSE "fresh"]
    BY DEF ConnectInit
  <2>2. pool \in Seq(Sockets) /\ pool # <<>>
    <3>1. /\ MaxUsers \in Nat /\ MaxUsers # 0
          /\ pool \in [1..MaxUsers -> Sockets]
      BY DEF Pools, MaxUsers
    <3> HIDE DEF Init
    <3>2. pool \in Seq(Sockets) /\ Len(pool) = MaxUsers
      BY <3>1
    <3> QED
      BY <3>1, <3>2
  <2>3. socketsPool \in Seq(Sockets) /\ connectNewbie \in Sockets
    BY <2>1, <2>2, SeqType
  <2> QED
    BY <2>1, <2>3 DEF ConnectInit, ConnectTypeOK, Calls, Endpoints
<1>2. TypeOK
  <2>1. seen \in [Workers -> [Places -> {"unread", "free", "taken"}]]
    BY DEF Unread
  <2>2. 0 \in Places
    BY DEF Places
  <2>3. job \in [Workers -> Completions] /\ spot \in [Workers -> Places]
    BY <2>2 DEF Completions, Operations, Done
  <2>4. /\ pc \in [Workers -> Steps]
        /\ users \in [Workers -> 0..UserSpan - 1]
        /\ got \in [Workers -> Packets \cup {Blank, Nothing}]
    BY DEF Steps
  <2>5. numberUsers \in 0..UserSpan - 1 /\ connections \in Nat
    OBVIOUS
  <2>9. port \in Seq(Completions)
    OBVIOUS
  <2>10. replies \subseteq Sockets \X (Sockets \cup {NULL})
    OBVIOUS
  <2>11. overtaken \in BOOLEAN
    OBVIOUS
  <2>6. /\ recvq \in [Sockets -> Seq(Receives)]
        /\ inbox \in [Sockets -> Seq(Packets)]
        /\ link \in [Sockets -> {"up", "fin", "rst"}]
        /\ sent \in [Sockets -> Nat]
    OBVIOUS
  <2>7. /\ myState \in [Places -> {"NONE", "ACCEPTED"}]
        /\ mySocket \in [Places -> Sockets \cup {NULL}]
        /\ locked \in [Places -> BOOLEAN]
        /\ myLastPacket \in [Places -> Packets \cup {Blank}]
    OBVIOUS
  <2>8. /\ myRecvSize \in [Places -> Nat]
        /\ myData \in [Places -> [Offsets -> Packets \cup {Blank}]]
        /\ buf \in [Places -> Nat]
        /\ sized \in [Places -> BOOLEAN]
    OBVIOUS
  <2> QED
    BY <1>1, <2>1, <2>3, <2>4, <2>5, <2>6, <2>7, <2>8, <2>9,
       <2>10, <2>11, Zenon DEF TypeOK
<1>3. StoreBound
  BY DEF StoreBound
<1> QED
  BY <1>2, <1>3 DEF TypeInv

LEMMA DisconnectNowType ==
  ASSUME endpoint \in [Sockets -> Endpoints], NEW s, DisconnectNow(s)
  PROVE  endpoint' \in [Sockets -> Endpoints]
<1>1. CASE UNCHANGED endpoint
  BY <1>1
<1>2. CASE endpoint' = [t \in Sockets |->
                          IF t = s /\ endpoint[t] = "connected"
                          THEN Disconnected ELSE endpoint[t]]
  BY <1>2 DEF Disconnected, Endpoints
<1> QED
  BY <1>1, <1>2 DEF DisconnectNow

(* Each group of steps keeps the types; StoreBound follows in each case    *)
(* from the worker's own move.                                             *)
LEMMA AcceptTyping ==
  ASSUME TypeInv, NEW w \in Workers, AcceptStep(w) PROVE TypeInv'
<1> USE ConnectAssumption, FrameworkAssumption, MaxUsersNat
    DEF TypeInv, TypeOK, ConnectTypeOK, StoreBound, At, Goto, LetGo, Steps,
        HoldingSteps, connectVars, sessionVars, receiverVars, workerVars,
        countVars, netVars
<1>1. CASE AcceptLoad(w)
  BY <1>1 DEF AcceptLoad, UpdateLoad, Calls
<1>2. CASE AcceptPop(w)
  BY <1>2, PopType DEF AcceptPop, UpdatePop, Calls
<1>3. CASE AcceptRearm(w)
  BY <1>3 DEF AcceptRearm, UpdateAccept, Accept, Acceptable, Calls, Endpoints
<1>4. CASE Admit(w)
  BY <1>4 DEF Admit
<1>5. CASE Refuse(w)
  <2>1. socketsPool' \in Seq(Sockets \cup {NULL})
    BY <1>5, PushType DEF Refuse
  <2>2. endpoint' \in [Sockets -> Endpoints]
    BY <1>5, DisconnectNowType DEF Refuse
  <2> QED
    BY <1>5, <2>1, <2>2 DEF Refuse
<1>6. CASE SeekRead(w)
  <2>1. seen' \in [Workers -> [Places -> {"unread", "free", "taken"}]]
    BY <1>6 DEF SeekRead
  <2> QED
    BY <1>6, <2>1 DEF SeekRead
<1>7. CASE SeekNewbiePlace(w)
  <2>1. spot' \in [Workers -> Places]
    BY <1>7 DEF SeekNewbiePlace
  <2>2. seen' \in [Workers -> [Places -> {"unread", "free", "taken"}]]
    BY <1>7 DEF SeekNewbiePlace, Unread
  <2>3. pc' \in [Workers -> Steps] /\ StoreBound'
    BY <1>7 DEF SeekNewbiePlace
  <2> QED
    BY <1>7, <2>1, <2>2, <2>3 DEF SeekNewbiePlace
<1>8. CASE NoPlace(w)
  <2>1. seen' \in [Workers -> [Places -> {"unread", "free", "taken"}]]
    BY <1>8 DEF NoPlace, Unread
  <2> QED
    BY <1>8, <2>1 DEF NoPlace
<1>9. CASE Claim(w)
  BY <1>9 DEF Claim, Acquire
<1>10. CASE Ready(w)
  <2>1. users'[w] = numberUsers /\ (pc'[w] = "store" => numberUsers < MaxUsers)
    BY <1>10 DEF Ready, CanAcceptPlayer
  <2>2. StoreBound'
    BY <1>10, <2>1 DEF Ready
  <2>3. /\ pc' \in [Workers -> Steps]
        /\ locked' \in [Places -> BOOLEAN]
    BY <1>10 DEF Ready, Release
  <2>4. /\ myState' \in [Places -> {"NONE", "ACCEPTED"}]
        /\ mySocket' \in [Places -> Sockets \cup {NULL}]
        /\ users' \in [Workers -> 0..UserSpan - 1]
        /\ hand' \in [Workers -> Sockets \cup {NULL}]
    BY <1>10 DEF Ready
  <2> QED
    BY <1>10, <2>2, <2>3, <2>4 DEF Ready
<1>11. CASE StoreUsers(w)
  <2>1. numberUsers' = users[w] + 1 /\ users[w] < MaxUsers
    BY <1>11 DEF StoreUsers, Count
  <2>2. numberUsers' \in 0..UserSpan - 1
    BY SMTT(30), <2>1
  <2> QED
    BY <1>11, <2>2 DEF StoreUsers, Count
<1>12. CASE BeginRecv(w)
  <2>1. /\ port' \in Seq(Completions)
        /\ recvq' \in [Sockets -> Seq(Receives)]
        /\ inbox' \in [Sockets -> Seq(Packets)]
        /\ myData' \in [Places -> [Offsets -> Packets \cup {Blank}]]
    <3>1. /\ spot[w] \in Places /\ buf[spot[w]] \in Nat
          /\ (~ sized[spot[w]]) \in BOOLEAN
      OBVIOUS
    <3>2. Recv(spot[w], ~ sized[spot[w]], buf[spot[w]])
      BY <1>12 DEF BeginRecv
    <3> QED
      BY <3>1, <3>2, RecvType
  <2> QED
    BY <1>12, <2>1 DEF BeginRecv
<1> QED
  BY <1>1, <1>2, <1>3, <1>4, <1>5, <1>6, <1>7, <1>8, <1>9, <1>10, <1>11, <1>12
     DEF AcceptStep

LEMMA BeginDisconnectType ==
  ASSUME TypeOK, NEW p \in Places, BeginDisconnect(p)
  PROVE  /\ endpoint' \in [Sockets -> Endpoints]
         /\ myLastPacket' \in [Places -> Packets \cup {Blank}]
<1> USE DEF TypeOK, ConnectTypeOK
<1>1. CASE myState[p] # "NONE"
  <2>1. myLastPacket' = [myLastPacket EXCEPT ![p] = Blank]
    BY <1>1 DEF BeginDisconnect
  <2>2. endpoint' = [s \in Sockets |->
                       IF s = mySocket[p] /\ endpoint[s] = "connected"
                       THEN "closing" ELSE endpoint[s]]
    BY <1>1 DEF BeginDisconnect
  <2>3. endpoint' \in [Sockets -> Endpoints]
    BY <2>2 DEF Endpoints
  <2> QED
    BY <2>1, <2>3
<1>2. CASE myState[p] = "NONE"
  BY <1>2 DEF BeginDisconnect
<1> QED
  BY <1>1, <1>2

LEMMA CleanupType ==
  ASSUME TypeOK, NEW p \in Places, Cleanup(p)
  PROVE  /\ myState' \in [Places -> {"NONE", "ACCEPTED"}]
         /\ mySocket' \in [Places -> Sockets \cup {NULL}]
         /\ mySocket'[p] = NULL
         /\ myRecvSize' \in [Places -> Nat]
         /\ myData' \in [Places -> [Offsets -> Packets \cup {Blank}]]
         /\ buf' \in [Places -> Nat]
         /\ sized' \in [Places -> BOOLEAN]
BY DEF TypeOK, Cleanup

LEMMA RecvTyping ==
  ASSUME TypeInv, NEW w \in Workers, RecvStep(w) PROVE TypeInv'
<1> USE ConnectAssumption, FrameworkAssumption, MaxUsersNat
    DEF TypeInv, TypeOK, ConnectTypeOK, StoreBound, At, Goto, Steps,
        HoldingSteps, connectVars, sessionVars, receiverVars, workerVars,
        countVars, netVars
<1>1. CASE Assemble(w)
  <2> DEFINE p == spot[w]
  <2>1. p \in Places /\ Header(p) \in Packets \cup {Blank}
    BY HeaderType
  <2>2. myLastPacket' \in [Places -> Packets \cup {Blank}]
    BY <1>1, <2>1 DEF Assemble
  <2>3. myRecvSize' \in [Places -> Nat]
    <3> DEFINE size == myRecvSize[p] + (IF job[w].data THEN 1 ELSE 0)
               rest == IF size > 0 /\ Header(p) # Blank THEN size - 1 ELSE size
    <3>1. myRecvSize[p] \in Nat
      BY <2>1
    <3>2. size \in Nat
      BY <3>1
    <3>3. rest \in Nat
      BY <3>2
    <3>4. myRecvSize' = [myRecvSize EXCEPT ![p] = rest]
      BY <1>1 DEF Assemble
    <3> QED
      BY <3>3, <3>4
  <2>4. got' \in [Workers -> Packets \cup {Blank, Nothing}]
    <3>1. myLastPacket'[p] \in Packets \cup {Blank}
      BY <2>1, <2>2
    <3> QED
      BY <1>1, <3>1 DEF Assemble
  <2> QED
    BY <1>1, <2>2, <2>3, <2>4 DEF Assemble
<1>2. CASE SwallowAcquire(w)
  BY <1>2 DEF SwallowAcquire, Acquire
<1>3. CASE RearmNot(w)
  BY <1>3 DEF RearmNot, Release, Swallowed
<1>4. CASE Rearm(w)
  <2> DEFINE p == spot[w]
  <2>1. p \in Places /\ myRecvSize[p] \in Nat
    OBVIOUS
  <2>2. /\ port' \in Seq(Completions)
        /\ recvq' \in [Sockets -> Seq(Receives)]
        /\ inbox' \in [Sockets -> Seq(Packets)]
        /\ myData' \in [Places -> [Offsets -> Packets \cup {Blank}]]
    <3>1. Recv(p, FALSE, myRecvSize[p])
      BY <1>4 DEF Rearm
    <3> QED
      BY <2>1, <3>1, RecvType
  <2>3. /\ buf' \in [Places -> Nat]
        /\ sized' \in [Places -> BOOLEAN]
        /\ locked' \in [Places -> BOOLEAN]
    BY <1>4, <2>1 DEF Rearm, Release
  <2>4. /\ endpoint' \in [Sockets -> Endpoints]
        /\ myLastPacket' \in [Places -> Packets \cup {Blank}]
        /\ got' \in [Workers -> Packets \cup {Blank, Nothing}]
        /\ pc' \in [Workers -> Steps]
        /\ pc'[w] # "store"
        /\ \A v \in Workers \ {w} : pc'[v] = pc[v]
    <3>1. CASE RecvResult(p) = "done"
      BY ZenonT(30), <1>4, <3>1 DEF Rearm, Swallowed
    <3>2. CASE RecvResult(p) # "done"
      BY ZenonT(30), <1>4, <2>1, <3>2, BeginDisconnectType DEF Rearm
    <3> QED
      BY <3>1, <3>2
  <2>5. StoreBound'
    BY <1>4, <2>4 DEF Rearm
  <2> QED
    BY <1>4, <2>2, <2>3, <2>4, <2>5 DEF Rearm
<1>5. CASE RequestAcquire(w)
  BY <1>5 DEF RequestAcquire, Acquire
<1>6. CASE HandleVersion(w)
  <2>1. replies' \subseteq Sockets \X (Sockets \cup {NULL})
    BY <1>6, ReplyType DEF HandleVersion, Handling, Kinds
  <2> QED
    BY <1>6, <2>1 DEF HandleVersion, Release
<1>7. CASE HandleSignIn(w)
  <2>1. replies' \subseteq Sockets \X (Sockets \cup {NULL})
    BY <1>7, ReplyType DEF HandleSignIn, Handling, Kinds
  <2> QED
    BY <1>7, <2>1 DEF HandleSignIn
<1>8. CASE HandleNothing(w)
  BY <1>8 DEF HandleNothing
<1>9. CASE HandleDisposeGone(w)
  BY <1>9 DEF HandleDisposeGone
<1>10. CASE DisposeForget(w)
  BY <1>10 DEF DisposeForget
<1>11. CASE HandleDispose(w)
  <2> DEFINE p == spot[w]
  <2>1. /\ p \in Places /\ Cleanup(p) /\ Push(mySocket'[p])
        /\ DisconnectNow(mySocket[p])
    BY <1>11 DEF HandleDispose
  <2>2. socketsPool' \in Seq(Sockets \cup {NULL})
    BY <2>1, PushType, CleanupType
  <2>3. endpoint' \in [Sockets -> Endpoints]
    BY <2>1, DisconnectNowType
  <2> QED
    BY <1>11, <2>1, <2>2, <2>3, CleanupType DEF HandleDispose
<1>12. CASE DisposeRelease(w)
  BY <1>12 DEF DisposeRelease, Release
<1>13. CASE DisposeRestore(w)
  BY <1>13 DEF DisposeRestore
<1> QED
  BY <1>1, <1>2, <1>3, <1>4, <1>5, <1>6, <1>7, <1>8, <1>9, <1>10, <1>11,
     <1>12, <1>13 DEF RecvStep

LEMMA DisposeTyping ==
  ASSUME TypeInv, NEW w \in Workers, DisposeStep(w) PROVE TypeInv'
<1> USE ConnectAssumption, FrameworkAssumption, MaxUsersNat
    DEF TypeInv, TypeOK, ConnectTypeOK, StoreBound, At, Goto, Steps,
        HoldingSteps, connectVars, sessionVars, receiverVars, workerVars,
        countVars, netVars
<1>1. CASE DropAcquire(w)
  BY <1>1 DEF DropAcquire, Acquire
<1>2. CASE Drop(w)
  <2>1. spot[w] \in Places /\ BeginDisconnect(spot[w])
    BY <1>2 DEF Drop
  <2> QED
    BY <1>2, <2>1, BeginDisconnectType DEF Drop, Release
<1>3. CASE DisposeGiveBack(w)
  <2>1. socketsPool' \in Seq(Sockets \cup {NULL})
    BY <1>3, PushType DEF DisposeGiveBack
  <2> QED
    BY <1>3, <2>1 DEF DisposeGiveBack
<1>4. CASE CleanAcquire(w)
  BY <1>4 DEF CleanAcquire, Acquire
<1>5. CASE Clean(w)
  <2>1. spot[w] \in Places /\ Cleanup(spot[w])
    BY <1>5 DEF Clean
  <2> QED
    BY <1>5, <2>1, CleanupType DEF Clean, Release
<1>6. CASE Uncount(w)
  <2>1. numberUsers' \in 0..UserSpan - 1
    BY <1>6, ModType DEF Uncount, Count
  <2> QED
    BY <1>6, <2>1 DEF Uncount, Count
<1> QED
  BY <1>1, <1>2, <1>3, <1>4, <1>5, <1>6 DEF DisposeStep

LEMMA PortTyping ==
  ASSUME TypeInv, NEW w \in Workers, Dequeue(w) \/ Throw(w) \/ SignInThrows(w)
  PROVE  TypeInv'
<1> USE ConnectAssumption, FrameworkAssumption, MaxUsersNat
    DEF TypeInv, TypeOK, ConnectTypeOK, StoreBound, At, Goto,
        connectVars, sessionVars, receiverVars, workerVars, countVars, netVars
<1>1. CASE Dequeue(w)
  <2>1. Head(port) \in Completions /\ port' \in Seq(Completions)
    BY <1>1, SeqType DEF Dequeue
  <2>2. /\ pc' = [pc EXCEPT ![w] = Route(Head(port))]
        /\ Route(Head(port)) \in Steps \ {"store"}
    BY <1>1, <2>1, RouteType DEF Dequeue
  <2>3. spot' \in [Workers -> Places]
    BY <1>1 DEF Dequeue, Key, Places
  <2>4. pc' \in [Workers -> Steps] /\ StoreBound'
    BY SMTT(30), <1>1, <2>2 DEF Dequeue
  <2>5. job' \in [Workers -> Completions]
    BY <1>1, <2>1 DEF Dequeue
  <2> QED
    BY <1>1, <2>1, <2>3, <2>4, <2>5 DEF Dequeue
<1>2. CASE Throw(w) \/ SignInThrows(w) \/ SignInThrows(w)
  <2>1. /\ pc' = [v \in Workers |-> "gone"]
        /\ call' = [v \in Workers |-> "none"]
        /\ UNCHANGED <<socketsPool, connectNewbie, connectWorker, endpoint,
                       hand, countVars, sessionVars, job, seen, spot, users,
                       got, port, netVars, replies>>
    BY <1>2 DEF Throw, SignInThrows, Terminate
  <2>2. /\ pc' \in [Workers -> Steps] /\ StoreBound'
        /\ call' \in [Workers -> Calls]
    BY <2>1 DEF Steps, Calls
  <2> QED
    BY <2>1, <2>2
<1> QED
  BY <1>1, <1>2

LEMMA KernelTyping ==
  ASSUME TypeInv, NEW s \in Sockets, KernelStep(s) PROVE TypeInv'
<1> USE ConnectAssumption, FrameworkAssumption, MaxUsersNat
    DEF TypeInv, TypeOK, ConnectTypeOK, StoreBound, connectVars, sessionVars,
        receiverVars, workerVars, countVars, netVars
<1>1. CASE Deliver(s)
  <2>1. Head(recvq[s]) \in Receives /\ Tail(recvq[s]) \in Seq(Receives)
    BY <1>1, SeqType DEF Deliver
  <2>2. /\ port' \in Seq(Completions)
        /\ inbox' \in [Sockets -> Seq(Packets)]
        /\ myData' \in [Places -> [Offsets -> Packets \cup {Blank}]]
    BY <1>1, <2>1, CompleteRecvType DEF Deliver
  <2> QED
    BY <1>1, <2>1, <2>2 DEF Deliver
<1>2. CASE AbortRecv(s)
  <2>1. Head(recvq[s]) \in Receives /\ Tail(recvq[s]) \in Seq(Receives)
    BY <1>2, SeqType DEF AbortRecv
  <2>2. \A ok \in BOOLEAN : Received(Head(recvq[s]), ok, FALSE) \in Completions
    BY <2>1 DEF Received, Receives, Completions, Operations
  <2>3. port' \in Seq(Completions)
    <3>1. PICK ok \in BOOLEAN : Post(Received(Head(recvq[s]), ok, FALSE))
      BY <1>2 DEF AbortRecv
    <3> QED
      BY <2>2, <3>1, SeqType DEF Post
  <2> QED
    BY <1>2, <2>1, <2>3 DEF AbortRecv
<1>3. CASE Disconnects(s)
  <2>1. port' \in Seq(Completions)
    <3>1. PICK ok \in BOOLEAN : Post(Done("DISPOSE", ok))
      BY <1>3 DEF Disconnects
    <3>2. Done("DISPOSE", ok) \in Completions
      BY DEF Done, Completions, Operations, Places
    <3> QED
      BY <3>1, <3>2, SeqType DEF Post
  <2> QED
    BY <1>3, <2>1 DEF Disconnects, Disconnected, Endpoints
<1> QED
  BY <1>1, <1>2, <1>3 DEF KernelStep

LEMMA ClientTyping ==
  ASSUME TypeInv, ClientStep PROVE TypeInv'
<1> USE ConnectAssumption, FrameworkAssumption, MaxUsersNat
    DEF TypeInv, TypeOK, ConnectTypeOK, StoreBound, connectVars, sessionVars,
        receiverVars, workerVars, countVars, netVars
<1>1. ASSUME NEW ok \in BOOLEAN, Post(Done("ACCEPT", ok))
      PROVE  port' \in Seq(Completions)
  <2>1. Done("ACCEPT", ok) \in Completions
    BY DEF Done, Completions, Operations, Places
  <2> QED
    BY <1>1, <2>1, SeqType DEF Post
<1>2. CASE ClientConnects
  <2>1. port' \in Seq(Completions)
    BY <1>1, <1>2 DEF ClientConnects
  <2>2. ConnectTypeOK'
    BY <1>2 DEF ClientConnects, ClientArrives, Endpoints
  <2>3. /\ inbox' \in [Sockets -> Seq(Packets)]
        /\ link' \in [Sockets -> {"up", "fin", "rst"}]
        /\ sent' \in [Sockets -> Nat]
        /\ connections' \in Nat
    <3>1. <<>> \in Seq(Packets)
      OBVIOUS
    <3>2. inbox' \in [Sockets -> Seq(Packets)]
      BY <1>2, <3>1 DEF ClientConnects
    <3>3. connections' \in Nat
      BY <1>2 DEF ClientConnects
    <3> QED
      BY <1>2, <3>2, <3>3 DEF ClientConnects
  <2> QED
    BY <1>2, <2>1, <2>2, <2>3 DEF ClientConnects
<1>3. CASE AcceptFails
  <2>1. port' \in Seq(Completions)
    BY <1>1, <1>3 DEF AcceptFails
  <2> QED
    BY <1>3, <2>1 DEF AcceptFails, Endpoints
<1>4. ASSUME NEW s \in Sockets, NEW kind \in ClientPackets, ClientSends(s,
kind)
      PROVE  TypeInv'
  <2>1. [kind |-> kind, from |-> s] \in Packets
    BY DEF Packets
  <2>2. Append(inbox[s], [kind |-> kind, from |-> s]) \in Seq(Packets)
    BY <2>1, SeqType
  <2>3. inbox' \in [Sockets -> Seq(Packets)]
    BY <1>4, <2>2 DEF ClientSends
  <2>4. sent' \in [Sockets -> Nat]
    BY SMTT(30), <1>4 DEF ClientSends
  <2> QED
    BY <1>4, <2>3, <2>4 DEF ClientSends
<1>5. ASSUME NEW s \in Sockets, NEW how \in Partings, ClientLeaves(s, how)
      PROVE  TypeInv'
  BY SMTT(30), <1>5 DEF ClientLeaves
<1> QED
  BY <1>2, <1>3, <1>4, <1>5 DEF ClientStep

(* The variables have their types for every number of sockets and workers: *)
(* in particular numberUsers stays an unsigned, whatever it counts.        *)
THEOREM FrameworkTyping == Spec => []TypeOK
<1>1. TypeInv /\ [Next]_vars => TypeInv'
  <2> SUFFICES ASSUME TypeInv, [Next]_vars PROVE TypeInv'
    OBVIOUS
  <2>1. ASSUME NEW w \in Workers, WorkerStep(w) PROVE TypeInv'
    BY <2>1, PortTyping, AcceptTyping, RecvTyping, DisposeTyping DEF WorkerStep
  <2>2. ASSUME NEW s \in Sockets, KernelStep(s) PROVE TypeInv'
    BY <2>2, KernelTyping
  <2>3. CASE ClientStep
    BY <2>3, ClientTyping
  <2>4. CASE UNCHANGED vars
    BY <2>4 DEF TypeInv, TypeOK, ConnectTypeOK, StoreBound, vars, connectVars,
                sessionVars, receiverVars, workerVars, countVars, netVars
  <2> QED
    BY <2>1, <2>2, <2>3, <2>4 DEF Next
<1>2. TypeInv => TypeOK
  BY DEF TypeInv
<1> QED
  BY <1>1, <1>2, InitTyping, PTL DEF Spec

-------------------------------------------------------------------------------
(* The locks.  A step enters a critical section, leaves the one it is in,  *)
(* or leaves the locks alone; a worker that leaves the section without     *)
(* Release leaks the lock, which is the third case.                        *)

InSection(w) == pc[w] \in HoldingSteps

Enters(w) ==
  /\ ~ InSection(w)
  /\ ~ locked[spot[w]]
  /\ locked' = [locked EXCEPT ![spot[w]] = TRUE]
  /\ \A v \in Workers \ {w} : pc'[v] = pc[v]
  /\ spot' = spot

Leaves(w) ==
  /\ InSection(w)
  /\ locked' = [locked EXCEPT ![spot[w]] = FALSE]
  /\ pc'[w] \notin HoldingSteps
  /\ \A v \in Workers \ {w} : pc'[v] = pc[v]
  /\ spot' = spot

Abstains ==
  /\ locked' = locked
  /\ \A v \in Workers :
       pc'[v] \in HoldingSteps => InSection(v) /\ spot'[v] = spot[v]

LockStep == (\E w \in Workers : Enters(w) \/ Leaves(w)) \/ Abstains

LEMMA AcceptLocks ==
  ASSUME TypeOK, NEW w \in Workers, AcceptStep(w) PROVE LockStep
<1> USE DEF TypeOK, LockStep, Abstains, InSection, At, Goto, HoldingSteps
<1>1. CASE AcceptLoad(w) \/ AcceptPop(w) \/ AcceptRearm(w) \/ Admit(w)
  BY <1>1 DEF AcceptLoad, AcceptPop, AcceptRearm, Admit, sessionVars,
              workerVars, countVars
<1>2. CASE Refuse(w) \/ SeekRead(w) \/ SeekNewbiePlace(w) \/ NoPlace(w)
  BY <1>2 DEF Refuse, SeekRead, SeekNewbiePlace, NoPlace, sessionVars
<1>3. CASE Claim(w)
  <2>1. Enters(w)
    BY <1>3 DEF Claim, Acquire, Enters
  <2> QED
    BY <2>1
<1>4. CASE Ready(w)
  <2>1. CASE CanAcceptPlayer
    <3>1. Leaves(w)
      BY <1>4, <2>1 DEF Ready, Release, Leaves
    <3> QED
      BY <3>1
  <2>2. CASE ~ CanAcceptPlayer
    BY <1>4, <2>2 DEF Ready
  <2> QED
    BY <2>1, <2>2
<1>5. CASE StoreUsers(w) \/ BeginRecv(w)
  BY <1>5 DEF StoreUsers, BeginRecv, sessionVars
<1> QED
  BY <1>1, <1>2, <1>3, <1>4, <1>5 DEF AcceptStep

LEMMA RecvLocks ==
  ASSUME TypeOK, NEW w \in Workers, RecvStep(w) PROVE LockStep
<1> USE DEF TypeOK, LockStep, Abstains, InSection, At, Goto, HoldingSteps
<1>1. CASE SwallowAcquire(w) \/ RequestAcquire(w)
  <2>1. Enters(w)
    BY <1>1 DEF SwallowAcquire, RequestAcquire, Acquire, Enters
  <2> QED
    BY <2>1
<1>2. CASE RearmNot(w) \/ HandleVersion(w) \/ DisposeRelease(w)
  <2>1. Leaves(w)
    BY <1>2 DEF RearmNot, HandleVersion, DisposeRelease, Release, Leaves,
                Swallowed, Handling
  <2> QED
    BY <2>1
<1>3. CASE Rearm(w)
  <2>1. /\ pc' = [pc EXCEPT ![w] = pc'[w]]
        /\ pc'[w] \in {"port", "request"}
        /\ Release(spot[w])
        /\ spot' = spot
    BY <1>3 DEF Rearm, Swallowed
  <2>2. Leaves(w)
    BY <1>3, <2>1 DEF Rearm, Release, Leaves
  <2> QED
    BY <2>2
<1>4. CASE Assemble(w) \/ HandleSignIn(w) \/ HandleNothing(w)
  BY <1>4 DEF Assemble, HandleSignIn, HandleNothing, Handling, sessionVars
<1>5. CASE HandleDisposeGone(w) \/ DisposeForget(w) \/ HandleDispose(w)
  BY <1>5 DEF HandleDisposeGone, DisposeForget, HandleDispose, Handling,
              sessionVars
<1>6. CASE DisposeRestore(w)
  BY <1>6 DEF DisposeRestore
<1> QED
  BY <1>1, <1>2, <1>3, <1>4, <1>5, <1>6 DEF RecvStep

LEMMA DisposeLocks ==
  ASSUME TypeOK, NEW w \in Workers, DisposeStep(w) PROVE LockStep
<1> USE DEF TypeOK, LockStep, Abstains, InSection, At, Goto, HoldingSteps
<1>1. CASE DropAcquire(w) \/ CleanAcquire(w)
  <2>1. Enters(w)
    BY <1>1 DEF DropAcquire, CleanAcquire, Acquire, Enters
  <2> QED
    BY <2>1
<1>2. CASE Drop(w) \/ Clean(w)
  <2>1. Leaves(w)
    BY <1>2 DEF Drop, Clean, Release, Leaves
  <2> QED
    BY <2>1
<1>3. CASE DisposeGiveBack(w) \/ Uncount(w)
  BY <1>3 DEF DisposeGiveBack, Uncount, sessionVars
<1> QED
  BY <1>1, <1>2, <1>3 DEF DisposeStep

LEMMA NextLocks == TypeOK /\ [Next]_vars => LockStep
<1> SUFFICES ASSUME TypeOK, [Next]_vars PROVE LockStep
  OBVIOUS
<1>1. ASSUME NEW w \in Workers, WorkerStep(w) PROVE LockStep
  <2> USE DEF TypeOK, LockStep, Abstains, InSection, At, Goto
  <2>1. CASE Dequeue(w)
    <3>1. Route(Head(port)) \in Steps \ HoldingSteps
      BY <2>1, SeqType, RouteType DEF Dequeue
    <3> QED
      BY <2>1, <3>1 DEF Dequeue, sessionVars
  <2>2. CASE Throw(w) \/ SignInThrows(w)
    BY <2>2 DEF Throw, SignInThrows, Terminate, sessionVars, HoldingSteps
  <2> QED
    BY <1>1, <2>1, <2>2, AcceptLocks, RecvLocks, DisposeLocks DEF WorkerStep
<1>2. ASSUME UNCHANGED <<locked, pc, spot>> PROVE LockStep
  BY <1>2 DEF LockStep, Abstains, InSection
<1>3. ASSUME NEW s \in Sockets, KernelStep(s) PROVE LockStep
  BY <1>2, <1>3 DEF KernelStep, Deliver, AbortRecv, Disconnects, sessionVars,
                    workerVars, countVars
<1>4. CASE ClientStep
  BY <1>2, <1>4 DEF ClientStep, ClientConnects, AcceptFails, ClientSends,
                    ClientLeaves, sessionVars, workerVars, countVars
<1>5. CASE UNCHANGED vars
  BY <1>2, <1>5 DEF vars, sessionVars, workerVars, countVars
<1> QED
  BY <1>1, <1>3, <1>4, <1>5 DEF Next

LEMMA MutexStep ==
  ASSUME TypeOK, TypeOK', SessionMutex, LockStep PROVE SessionMutex'
<1> USE DEF SessionMutex, Holds, InSection, TypeOK
<1>1. ASSUME NEW w \in Workers, Enters(w) PROVE SessionMutex'
  <2>1. \A v \in Workers \ {w}, p \in Places :
          Holds(v, p)' <=> Holds(v, p)
    BY <1>1 DEF Enters
  <2>2. \A v \in Workers, p \in Places : Holds(v, p) => p # spot[w]
    BY <1>1 DEF Enters
  <2>3. \A p \in Places : locked'[p] <=> locked[p] \/ p = spot[w]
    BY <1>1 DEF Enters
  <2>4. \A p \in Places : Holds(w, p)' => p = spot[w]
    BY <1>1 DEF Enters
  <2>5. \A p \in Places, v \in Workers : Holds(v, p)' => locked'[p]
    BY <2>1, <2>3, <2>4
  <2>6. \A p \in Places, u, v \in Workers :
          Holds(u, p)' /\ Holds(v, p)' => u = v
    <3> SUFFICES ASSUME NEW p \in Places, NEW u \in Workers, NEW v \in Workers,
                        Holds(u, p)', Holds(v, p)', u # v
                 PROVE  FALSE
      OBVIOUS
    <3>1. CASE u # w /\ v # w
      <4>1. Holds(u, p) /\ Holds(v, p)
        BY <2>1, <3>1
      <4> QED
        BY <4>1
    <3>2. CASE u = w
      <4>1. p = spot[w]
        BY <2>4, <3>2
      <4>2. Holds(v, p)
        BY <2>1, <3>2
      <4> QED
        BY <2>2, <4>1, <4>2
    <3>3. CASE v = w
      <4>1. p = spot[w]
        BY <2>4, <3>3
      <4>2. Holds(u, p)
        BY <2>1, <3>3
      <4> QED
        BY <2>2, <4>1, <4>2
    <3> QED
      BY <3>1, <3>2, <3>3
  <2> QED
    BY <2>5, <2>6
<1>2. ASSUME NEW w \in Workers, Leaves(w) PROVE SessionMutex'
  <2>1. \A v \in Workers, p \in Places :
          Holds(v, p)' => Holds(v, p) /\ v # w
    BY <1>2 DEF Leaves
  <2>2. \A v \in Workers \ {w} : ~ Holds(v, spot[w])
    BY <1>2 DEF Leaves
  <2>3. \A p \in Places : p # spot[w] => locked'[p] = locked[p]
    BY <1>2 DEF Leaves
  <2> QED
    BY SMTT(30), <2>1, <2>2, <2>3
<1>3. CASE Abstains
  <2>1. \A v \in Workers, p \in Places : Holds(v, p)' => Holds(v, p)
    BY <1>3 DEF Abstains
  <2> QED
    BY SMTT(90), <1>3, <2>1 DEF Abstains
<1> QED
  BY <1>1, <1>2, <1>3 DEF LockStep

(* Acquire gives the ownership (Session.hpp): two workers are never inside *)
(* the same session, however many handlers run and however locks leak.     *)
THEOREM FrameworkMutex == Spec => []SessionMutex
<1>1. Init => SessionMutex
  BY DEF Init, SessionMutex, Holds, HoldingSteps
<1>2. TypeOK /\ TypeOK' /\ SessionMutex /\ [Next]_vars => SessionMutex'
  BY NextLocks, MutexStep
<1> QED
  BY <1>1, <1>2, FrameworkTyping, PTL DEF Spec

(* A session is released only by the worker inside it: no handler frees a  *)
(* lock another holds, nor one that was leaked.                            *)
THEOREM FrameworkReleasedByOwner == Spec => ReleasedByOwner
<1>1. TypeOK /\ TypeOK' /\ [Next]_vars =>
        [\A p \in Places : locked[p] /\ ~ locked'[p] =>
           \E w \in Workers : Holds(w, p) /\ ~ Holds(w, p)']_vars
  <2> SUFFICES ASSUME TypeOK, TypeOK', LockStep,
                      NEW p \in Places, locked[p], ~ locked'[p]
               PROVE  \E w \in Workers : Holds(w, p) /\ ~ Holds(w, p)'
    BY NextLocks
  <2>1. PICK w \in Workers : Leaves(w)
    BY DEF LockStep, Enters, Abstains, TypeOK
  <2>2. p = spot[w]
    BY <2>1 DEF Leaves, TypeOK
  <2> QED
    BY <2>1, <2>2 DEF Leaves, Holds, InSection
<1> QED
  BY <1>1, FrameworkTyping, PTL DEF Spec, ReleasedByOwner

(* The socket of a session is changed by Ready and Cleanup only, each of   *)
(* them between Acquire and Release.                                       *)
THEOREM FrameworkSocketUnderLock == Spec => SocketUnderLock
<1> DEFINE Guarded == \A p \in Places : mySocket'[p] # mySocket[p] =>
                        \E w \in Workers : Holds(w, p)
<1>1. TypeOK /\ [Next]_vars => Guarded
  <2> SUFFICES ASSUME TypeOK, [Next]_vars PROVE Guarded
    OBVIOUS
  <2>1. ASSUME NEW w \in Workers, Ready(w) \/ HandleDispose(w) \/ Clean(w)
        PROVE  Guarded
    <3>1. pc[w] \in HoldingSteps
      BY <2>1 DEF Ready, HandleDispose, Clean, Handling, At, HoldingSteps
    <3>2. \A p \in Places : mySocket'[p] # mySocket[p] => p = spot[w]
      BY <2>1 DEF Ready, HandleDispose, Clean, Cleanup, TypeOK
    <3> QED
      BY <3>1, <3>2 DEF Holds
  <2>2. ASSUME UNCHANGED mySocket PROVE Guarded
    BY <2>2
  <2>3. ASSUME NEW w \in Workers, AcceptStep(w) PROVE Guarded
    BY <2>1, <2>2, <2>3
       DEF AcceptStep, AcceptLoad, AcceptPop, AcceptRearm, Admit, Refuse,
           SeekRead, SeekNewbiePlace, NoPlace, Claim, StoreUsers, BeginRecv,
           sessionVars
  <2>4. ASSUME NEW w \in Workers, RecvStep(w) PROVE Guarded
    BY <2>1, <2>2, <2>4
       DEF RecvStep, Assemble, SwallowAcquire, RearmNot, Rearm,
           RequestAcquire, HandleVersion, HandleSignIn, HandleNothing,
           HandleDisposeGone, DisposeForget, DisposeRelease, DisposeRestore,
           sessionVars
  <2>5. ASSUME NEW w \in Workers, DisposeStep(w) PROVE Guarded
    BY <2>1, <2>2, <2>5
       DEF DisposeStep, DropAcquire, Drop, DisposeGiveBack, CleanAcquire,
           Uncount, sessionVars
  <2>6. ASSUME NEW w \in Workers, Dequeue(w) \/ Throw(w) \/ SignInThrows(w)
        PROVE  Guarded
    BY <2>2, <2>6 DEF Dequeue, Throw, SignInThrows, Terminate, sessionVars
  <2>7. ASSUME NEW s \in Sockets, KernelStep(s) PROVE Guarded
    BY <2>2, <2>7 DEF KernelStep, Deliver, AbortRecv, Disconnects, sessionVars
  <2>8. CASE ClientStep
    BY <2>2, <2>8 DEF ClientStep, ClientConnects, AcceptFails, ClientSends,
                      ClientLeaves, sessionVars
  <2>9. CASE UNCHANGED vars
    BY <2>2, <2>9 DEF vars, sessionVars
  <2> QED
    BY <2>3, <2>4, <2>5, <2>6, <2>7, <2>8, <2>9 DEF Next, WorkerStep
<1>2. TypeOK /\ [Next]_vars => [Guarded]_vars
  BY <1>1
<1> QED
  BY <1>2, FrameworkTyping, PTL DEF Spec, SocketUnderLock

-------------------------------------------------------------------------------
(* The acceptor.  AcceptEx has one completion at a time: in the port, or   *)
(* with one worker, from Dequeue until Update has accepted again.          *)

AcceptQueued(i) == i \in 1..Len(port) /\ port[i].op = "ACCEPT"
AcceptHeld(w)   == pc[w] \in {"update", "updating", "throw"}

OneCompletion ==
  /\ \A w \in Workers : call[w] # "none" => At(w, "updating")
  /\ \A w \in Workers : At(w, "updating") => connectWorker = "idle"
  /\ \A w \in Workers : At(w, "update") \/ At(w, "throw")
                          => connectWorker = "done" /\ call[w] = "none"
  /\ \A i \in Nat : AcceptQueued(i) => connectWorker = "done"
  /\ \A i, j \in Nat : AcceptQueued(i) /\ AcceptQueued(j) => i = j
  /\ \A v, w \in Workers : AcceptHeld(v) /\ AcceptHeld(w) => v = w
  /\ \A i \in Nat, w \in Workers : ~ (AcceptQueued(i) /\ AcceptHeld(w))

(* What is posted is queued last, after what was there.                    *)
LEMMA QueuedAfterPost ==
  ASSUME port \in Seq(Completions), NEW c \in Completions, Post(c)
  PROVE  \A i \in Nat :
           AcceptQueued(i)' <=> \/ AcceptQueued(i)
                                \/ i = Len(port) + 1 /\ c.op = "ACCEPT"
<1>1. /\ Len(port) \in Nat /\ Len(port') = Len(port) + 1
      /\ \A i \in 1..Len(port) : port'[i] = port[i]
      /\ port'[Len(port) + 1] = c
  BY DEF Post
<1>2. 1..Len(port') = (1..Len(port)) \cup {Len(port) + 1}
  BY <1>1
<1> QED
  BY <1>1, <1>2 DEF AcceptQueued

(* What is dequeued was first; the rest moves up by one.                   *)
LEMMA QueuedAfterDequeue ==
  ASSUME port \in Seq(Completions), port # <<>>, port' = Tail(port)
  PROVE  /\ \A i \in Nat : AcceptQueued(i)' => AcceptQueued(i + 1) /\ i # 0
         /\ Head(port).op = "ACCEPT" => AcceptQueued(1)
<1>1. /\ Len(port) \in Nat \ {0} /\ Len(port') = Len(port) - 1
      /\ \A i \in 1..Len(port) - 1 : port'[i] = port[i + 1]
      /\ Head(port) = port[1]
  OBVIOUS
<1> QED
  BY <1>1 DEF AcceptQueued

(* Steps of handlers other than Update's do not touch the completion.      *)
Elsewhere ==
  /\ UNCHANGED <<connectWorker, call>>
  /\ \A v \in Workers : AcceptHeld(v)' => AcceptHeld(v) /\ pc'[v] = pc[v]
  /\ \A v \in Workers : call[v] # "none" => pc'[v] = pc[v]
  /\ \A i \in Nat : AcceptQueued(i)' => AcceptQueued(i)

LEMMA ElsewhereStep ==
  ASSUME TypeOK, OneCompletion, Elsewhere PROVE OneCompletion'
BY DEF TypeOK, OneCompletion, Elsewhere, AcceptHeld, At

(* Recv posts no ACCEPT.                                                   *)
LEMMA RecvPosts ==
  ASSUME TypeOK, NEW p \in Places, NEW probe \in BOOLEAN, NEW at \in Nat,
         Recv(p, probe, at)
  PROVE  \A i \in Nat : AcceptQueued(i)' => AcceptQueued(i)
<1>1. CASE port' = port
  BY <1>1 DEF AcceptQueued
<1>2. CASE port' # port
  <2> DEFINE r == [place |-> p, probe |-> probe, at |-> at]
  <2>1. CompleteRecv(mySocket[p], r)
    BY <1>2 DEF Recv
  <2>2. PICK data \in BOOLEAN : Post(Received(r, TRUE, data))
    BY <2>1 DEF CompleteRecv
  <2>3. /\ Received(r, TRUE, data) \in Completions
        /\ Received(r, TRUE, data).op = "RECV"
    BY DEF Received, Completions, Operations
  <2> QED
    BY <2>2, <2>3, QueuedAfterPost DEF TypeOK
<1> QED
  BY <1>1, <1>2

LEMMA AcceptElsewhere ==
  ASSUME TypeOK, OneCompletion, NEW w \in Workers,
         \/ Admit(w) \/ Refuse(w) \/ SeekRead(w) \/ SeekNewbiePlace(w)
         \/ NoPlace(w)
         \/ Claim(w) \/ Ready(w) \/ StoreUsers(w) \/ BeginRecv(w)
  PROVE  Elsewhere
<1> USE DEF TypeOK, ConnectTypeOK, Elsewhere, AcceptHeld, At, Goto, connectVars
<1>1. call[w] = "none"
  BY DEF OneCompletion, Admit, Refuse, SeekRead, SeekNewbiePlace, NoPlace,
         Claim, Ready, StoreUsers, BeginRecv
<1>2. UNCHANGED port => \A i \in Nat : AcceptQueued(i)' => AcceptQueued(i)
  BY DEF AcceptQueued
<1>3. CASE \/ Admit(w) \/ Refuse(w) \/ SeekRead(w) \/ SeekNewbiePlace(w)
           \/ NoPlace(w)
  BY SMTT(30), <1>1, <1>2, <1>3 DEF Admit, Refuse, SeekRead, SeekNewbiePlace,
                                    NoPlace
<1>4. CASE Claim(w) \/ Ready(w) \/ StoreUsers(w)
  BY SMTT(30), <1>1, <1>2, <1>4 DEF Claim, Ready, StoreUsers
<1>5. CASE BeginRecv(w)
  <2>1. \A i \in Nat : AcceptQueued(i)' => AcceptQueued(i)
    <3>1. (~ sized[spot[w]]) \in BOOLEAN /\ buf[spot[w]] \in Nat
      OBVIOUS
    <3> QED
      BY <1>5, <3>1, RecvPosts DEF BeginRecv
  <2> QED
    BY <1>1, <1>5, <2>1 DEF BeginRecv
<1> QED
  BY <1>3, <1>4, <1>5

LEMMA RecvElsewhere ==
  ASSUME TypeOK, OneCompletion, NEW w \in Workers, RecvStep(w)
  PROVE  Elsewhere
<1> USE DEF TypeOK, ConnectTypeOK, Elsewhere, AcceptHeld, At, Goto, connectVars
<1>1. call[w] = "none"
  BY DEF OneCompletion, RecvStep, Assemble, SwallowAcquire, RearmNot, Rearm,
         RequestAcquire, HandleVersion, HandleSignIn, HandleNothing, Handling,
         HandleDisposeGone, DisposeForget, HandleDispose, DisposeRelease,
         DisposeRestore
<1>2. UNCHANGED port => \A i \in Nat : AcceptQueued(i)' => AcceptQueued(i)
  BY DEF AcceptQueued
<1>3. CASE Assemble(w) \/ SwallowAcquire(w) \/ RearmNot(w) \/ RequestAcquire(w)
  BY SMTT(30), <1>1, <1>2, <1>3 DEF Assemble, SwallowAcquire, RearmNot,
                                    RequestAcquire,
                          Swallowed
<1>4. CASE HandleVersion(w) \/ HandleSignIn(w) \/ HandleNothing(w)
  BY <1>1, <1>2, <1>4 DEF HandleVersion, HandleSignIn, HandleNothing, Handling
<1>5. CASE HandleDisposeGone(w) \/ DisposeForget(w) \/ HandleDispose(w)
  BY <1>1, <1>2, <1>5 DEF HandleDisposeGone, DisposeForget, HandleDispose,
                          Handling
<1>6. CASE DisposeRelease(w) \/ DisposeRestore(w)
  BY <1>1, <1>2, <1>6 DEF DisposeRelease, DisposeRestore
<1>7. CASE Rearm(w)
  <2>1. \A i \in Nat : AcceptQueued(i)' => AcceptQueued(i)
    <3>1. myRecvSize[spot[w]] \in Nat /\ spot[w] \in Places
      OBVIOUS
    <3> QED
      BY <1>7, <3>1, RecvPosts DEF Rearm
  <2>2. /\ pc'[w] \in {"port", "request"}
        /\ \A v \in Workers \ {w} : pc'[v] = pc[v]
        /\ UNCHANGED <<connectWorker, call>>
    BY <1>7 DEF Rearm, Swallowed
  <2> QED
    BY <1>1, <2>1, <2>2
<1> QED
  BY <1>3, <1>4, <1>5, <1>6, <1>7 DEF RecvStep

LEMMA DisposeElsewhere ==
  ASSUME TypeOK, OneCompletion, NEW w \in Workers, DisposeStep(w)
  PROVE  Elsewhere
<1> USE DEF TypeOK, ConnectTypeOK, Elsewhere, AcceptHeld, At, Goto, connectVars
<1>1. call[w] = "none"
  BY DEF OneCompletion, DisposeStep, DropAcquire, Drop, DisposeGiveBack,
         CleanAcquire, Clean, Uncount
<1>2. UNCHANGED port => \A i \in Nat : AcceptQueued(i)' => AcceptQueued(i)
  BY DEF AcceptQueued
<1> QED
  BY <1>1, <1>2 DEF DisposeStep, DropAcquire, Drop, DisposeGiveBack,
                    CleanAcquire, Clean, Uncount

LEMMA KernelElsewhere ==
  ASSUME TypeOK, OneCompletion, NEW s \in Sockets, KernelStep(s)
  PROVE  Elsewhere
<1> USE DEF TypeOK
<1>1. PICK c \in Completions : Post(c) /\ c.op # "ACCEPT"
  <2>1. CASE Deliver(s)
    <3>1. Head(recvq[s]) \in Receives
      BY <2>1, SeqType DEF Deliver
    <3>2. PICK data \in BOOLEAN : Post(Received(Head(recvq[s]), TRUE, data))
      BY <2>1 DEF Deliver, CompleteRecv
    <3>3. Received(Head(recvq[s]), TRUE, data) \in Completions
      BY <3>1 DEF Received, Receives, Completions, Operations
    <3>4. Received(Head(recvq[s]), TRUE, data).op # "ACCEPT"
      BY DEF Received
    <3> QED
      BY <3>2, <3>3, <3>4
  <2>2. CASE AbortRecv(s)
    <3>1. Head(recvq[s]) \in Receives
      BY <2>2, SeqType DEF AbortRecv
    <3>2. PICK ok \in BOOLEAN : Post(Received(Head(recvq[s]), ok, FALSE))
      BY <2>2 DEF AbortRecv
    <3>3. Received(Head(recvq[s]), ok, FALSE) \in Completions
      BY <3>1 DEF Received, Receives, Completions, Operations
    <3>4. Received(Head(recvq[s]), ok, FALSE).op # "ACCEPT"
      BY DEF Received
    <3> QED
      BY <3>2, <3>3, <3>4
  <2>3. CASE Disconnects(s)
    <3>1. PICK ok \in BOOLEAN : Post(Done("DISPOSE", ok))
      BY <2>3, FrameworkAssumption DEF Disconnects
    <3>2. Done("DISPOSE", ok) \in Completions
      BY MaxUsersNat DEF Done, Completions, Operations, Places
    <3>3. Done("DISPOSE", ok).op # "ACCEPT"
      BY DEF Done
    <3> QED
      BY <3>1, <3>2, <3>3
  <2> QED
    BY <2>1, <2>2, <2>3 DEF KernelStep
<1>2. \A i \in Nat : AcceptQueued(i)' => AcceptQueued(i)
  BY <1>1, QueuedAfterPost
<1>3. UNCHANGED <<connectWorker, call, pc>>
  BY DEF KernelStep, Deliver, AbortRecv, Disconnects, connectVars, workerVars,
         countVars
<1> QED
  BY <1>2, <1>3 DEF Elsewhere, AcceptHeld

(* The steps of Update, and those that take or post the completion.        *)
LEMMA UpdateStep ==
  ASSUME TypeOK, OneCompletion, NEW w \in Workers,
         AcceptLoad(w) \/ AcceptPop(w) \/ AcceptRearm(w)
  PROVE  OneCompletion'
<1> USE DEF TypeOK, ConnectTypeOK, At, Goto, AcceptHeld
<1>1. UNCHANGED port
  BY DEF AcceptLoad, AcceptPop, AcceptRearm
<1>2. \A i \in Nat : ~ AcceptQueued(i) /\ ~ AcceptQueued(i)'
  BY <1>1 DEF OneCompletion, AcceptQueued, AcceptLoad, AcceptPop, AcceptRearm
<1>3. \A v \in Workers \ {w} : ~ AcceptHeld(v) /\ call[v] = "none"
  BY DEF OneCompletion, AcceptLoad, AcceptPop, AcceptRearm
<1>4. CASE AcceptLoad(w)
  <2>1. /\ connectWorker' = "idle" /\ pc'[w] = "updating"
        /\ \A v \in Workers \ {w} : pc'[v] = pc[v] /\ call'[v] = call[v]
    BY <1>4 DEF AcceptLoad, UpdateLoad
  <2> QED
    BY <1>2, <1>3, <2>1 DEF OneCompletion
<1>5. CASE AcceptPop(w)
  <2>1. /\ connectWorker' = connectWorker /\ pc' = pc
        /\ \A v \in Workers \ {w} : call'[v] = call[v]
        /\ pc[w] = "updating"
    BY <1>5 DEF AcceptPop, UpdatePop, workerVars, countVars
  <2> QED
    BY <1>2, <1>3, <2>1 DEF OneCompletion
<1>6. CASE AcceptRearm(w)
  <2>1. /\ pc'[w] = "check" /\ call'[w] = "none"
        /\ \A v \in Workers \ {w} : pc'[v] = pc[v] /\ call'[v] = call[v]
    BY <1>6 DEF AcceptRearm, UpdateAccept
  <2> QED
    BY ZenonT(30), <1>2, <1>3, <2>1 DEF OneCompletion
<1> QED
  BY <1>4, <1>5, <1>6

LEMMA PortStep ==
  ASSUME TypeOK, OneCompletion, NEW w \in Workers,
         Dequeue(w) \/ Throw(w) \/ SignInThrows(w)
  PROVE  OneCompletion'
<1> USE DEF TypeOK, ConnectTypeOK, At, Goto, AcceptHeld, connectVars
<1>1. CASE Dequeue(w)
  <2> DEFINE c == Head(port)
  <2>1. /\ c \in Completions
        /\ call[w] = "none" /\ call' = call /\ connectWorker' = connectWorker
        /\ pc'[w] = Route(c)
        /\ \A v \in Workers \ {w} : pc'[v] = pc[v]
    BY <1>1, SeqType DEF Dequeue, OneCompletion
  <2>2. /\ \A i \in Nat : AcceptQueued(i)' => AcceptQueued(i + 1) /\ i # 0
        /\ c.op = "ACCEPT" => AcceptQueued(1)
    BY <1>1, QueuedAfterDequeue DEF Dequeue
  <2>3. CASE c.op = "ACCEPT"
    <3>1. pc'[w] \in {"update", "throw"}
      BY <2>1, <2>3 DEF Route
    <3>2. /\ connectWorker = "done"
          /\ \A v \in Workers : ~ AcceptHeld(v)
          /\ \A i \in Nat : AcceptQueued(i) => i = 1
      BY <2>2, <2>3 DEF OneCompletion
    <3>3. \A i \in Nat : ~ AcceptQueued(i)'
      BY <2>2, <3>2
    <3> QED
      BY SMTT(30), <2>1, <3>1, <3>2, <3>3 DEF OneCompletion
  <2>4. CASE c.op # "ACCEPT"
    <3>1. pc'[w] \notin {"update", "updating", "throw"}
      BY <2>1, <2>4 DEF Route, Completions, Operations
    <3>2. \A v \in Workers : AcceptHeld(v)' => AcceptHeld(v) /\ pc'[v] = pc[v]
      BY <2>1, <3>1
    <3>3. \A i, j \in Nat : AcceptQueued(i)' /\ AcceptQueued(j)' => i = j
      <4> SUFFICES ASSUME NEW i \in Nat, NEW j \in Nat,
                          AcceptQueued(i)', AcceptQueued(j)'
                   PROVE  i = j
        OBVIOUS
      <4>1. AcceptQueued(i + 1) /\ AcceptQueued(j + 1)
        BY <2>2
      <4>2. i + 1 = j + 1
        BY <4>1 DEF OneCompletion
      <4> QED
        BY <4>2
    <3>4. /\ \A i \in Nat : AcceptQueued(i)' => connectWorker' = "done"
          /\ \A i \in Nat, v \in Workers :
               ~ (AcceptQueued(i)' /\ AcceptHeld(v)')
      <4>1. ASSUME NEW i \in Nat, AcceptQueued(i)'
            PROVE  /\ connectWorker' = "done"
                   /\ \A v \in Workers : ~ AcceptHeld(v)'
        <5>1. i + 1 \in Nat /\ AcceptQueued(i + 1)
          BY <2>2, <4>1
        <5> QED
          BY <2>1, <3>2, <5>1 DEF OneCompletion
      <4> QED
        BY <4>1
    <3> QED
      BY <2>1, <3>1, <3>2, <3>3, <3>4 DEF OneCompletion
  <2> QED
    BY <2>3, <2>4
<1>2. CASE Throw(w) \/ SignInThrows(w)
  <2>1. /\ \A v \in Workers : call'[v] = "none" /\ pc'[v] = "gone"
        /\ UNCHANGED <<connectWorker, port>>
    BY <1>2 DEF Throw, SignInThrows, Terminate, OneCompletion
  <2>2. \A i \in Nat : AcceptQueued(i)' = AcceptQueued(i)
    BY <2>1 DEF AcceptQueued
  <2> QED
    BY <2>1, <2>2 DEF OneCompletion
<1> QED
  BY <1>1, <1>2

LEMMA ArriveStep ==
  ASSUME TypeOK, OneCompletion, ClientConnects \/ AcceptFails
  PROVE  OneCompletion'
<1> USE DEF TypeOK
<1>1. /\ connectWorker = "pending" /\ connectWorker' = "done"
      /\ UNCHANGED <<call, pc>>
  BY DEF ClientConnects, ClientArrives, AcceptFails, workerVars, countVars
<1>2. PICK ok \in BOOLEAN : Post(Done("ACCEPT", ok))
  BY DEF ClientConnects, AcceptFails
<1>3. Done("ACCEPT", ok) \in Completions
  BY MaxUsersNat DEF Done, Completions, Operations, Places
<1>4. \A i \in Nat : ~ AcceptQueued(i)
  BY <1>1 DEF OneCompletion
<1>5. \A i \in Nat : AcceptQueued(i)' => i = Len(port) + 1
  BY <1>2, <1>3, <1>4, QueuedAfterPost
<1>6. \A w \in Workers : ~ AcceptHeld(w) /\ ~ AcceptHeld(w)'
  BY <1>1 DEF OneCompletion, AcceptHeld, At
<1>7. \A w \in Workers : call'[w] = "none"
  BY <1>1 DEF OneCompletion, At
<1> QED
  BY <1>1, <1>5, <1>6, <1>7 DEF OneCompletion, AcceptHeld, At

LEMMA OneCompletionStep ==
  TypeOK /\ OneCompletion /\ [Next]_vars => OneCompletion'
<1> SUFFICES ASSUME TypeOK, OneCompletion, [Next]_vars PROVE OneCompletion'
  OBVIOUS
<1>1. ASSUME NEW w \in Workers, WorkerStep(w) PROVE OneCompletion'
  BY <1>1, PortStep, UpdateStep, AcceptElsewhere, RecvElsewhere,
     DisposeElsewhere, ElsewhereStep DEF WorkerStep, AcceptStep
<1>2. ASSUME NEW s \in Sockets, KernelStep(s) PROVE OneCompletion'
  BY <1>2, KernelElsewhere, ElsewhereStep
<1>3. ASSUME UNCHANGED <<connectWorker, call, pc, port>> PROVE OneCompletion'
  BY <1>3, ElsewhereStep DEF Elsewhere, AcceptHeld, AcceptQueued
<1>4. CASE ClientStep
  <2>1. CASE ClientConnects \/ AcceptFails
    BY <2>1, ArriveStep
  <2>2. CASE ~ (ClientConnects \/ AcceptFails)
    BY <1>3, <1>4, <2>2 DEF ClientStep, ClientSends, ClientLeaves,
                            connectVars, workerVars, countVars
  <2> QED
    BY <2>1, <2>2
<1>5. CASE UNCHANGED vars
  BY <1>3, <1>5 DEF vars, connectVars, workerVars, countVars
<1> QED
  BY <1>1, <1>2, <1>4, <1>5 DEF Next

LEMMA InitOneCompletion == Init => OneCompletion
<1> SUFFICES ASSUME Init PROVE OneCompletion
  OBVIOUS
<1>1. \A i \in Nat : ~ AcceptQueued(i)
  BY DEF Init, AcceptQueued
<1> QED
  BY <1>1 DEF Init, ConnectInit, OneCompletion, AcceptHeld, At

(* connectNewbie and the OVERLAPPED of AcceptEx, which no lock protects,   *)
(* are used by one worker at a time: whichever workers run, whichever      *)
(* completions come in between, Update never overlaps Update.              *)
THEOREM FrameworkAcceptSingle == Spec => []AcceptSingle
<1>1. OneCompletion => AcceptSingle
  BY DEF OneCompletion, AcceptSingle, AcceptHeld, At
<1> QED
  BY <1>1, InitOneCompletion, OneCompletionStep, FrameworkTyping, PTL DEF Spec
===============================================================================
