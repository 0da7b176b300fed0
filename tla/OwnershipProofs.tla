---------------------------- MODULE OwnershipProofs ----------------------------
(***************************************************************************)
(* Who has a socket: Framework's OneOwner, AcceptsOn and NoneForgotten,    *)
(* for any number of sockets, sessions, workers and connections.  All are  *)
(* about sockets that serve one connection, and rest on the one completion *)
(* of AcceptEx (OneCompletion): whoever takes a socket over has it alone.  *)
(* (What the port holds before and after a step is OneConnectionProofs'.)  *)
(***************************************************************************)
EXTENDS OneConnectionProofs

(* OneOwner is not inductive: it does not see that the socket AcceptEx is  *)
(* renewed on has no owner.  A socket is fresh until AcceptEx takes it, so *)
(* a fresh one is neither with a session or a worker nor being accepted on.*)
Unowned(s) ==
  /\ \A p \in Places : mySocket[p] # s
  /\ \A w \in Workers : hand[w] # s

Spare ==
  ~ Reusable =>
    \A s \in Sockets : endpoint[s] = "fresh" =>
      /\ Unowned(s)
      /\ connectWorker # "idle" => connectNewbie # s

Owned == OneOwner /\ Spare

-------------------------------------------------------------------------------
(* Most steps leave the acceptor alone and let go of sockets at most; no   *)
(* socket becomes fresh again.                                             *)
LetsGo ==
  /\ UNCHANGED <<connectWorker, connectNewbie>>
  /\ \A p \in Places : mySocket'[p] \in {mySocket[p], NULL}
  /\ \A w \in Workers : hand'[w] \in {hand[w], NULL}
  /\ ~ Reusable =>
       \A s \in Sockets : endpoint'[s] = "fresh" => endpoint[s] = "fresh"

(* And they end no call of Update, nor start the threads again.            *)
GoesOn ==
  /\ UNCHANGED call
  /\ (\E w \in Workers : pc'[w] # "gone") => \E w \in Workers : pc[w] # "gone"

LEMMA LetsGoOwned ==
  ASSUME Owned, LetsGo PROVE Owned'
BY ConnectAssumption DEF Owned, OneOwner, Spare, Unowned, LetsGo

LEMMA LetsGoAccepts ==
  ASSUME AcceptsOn, LetsGo, GoesOn PROVE AcceptsOn'
BY DEF AcceptsOn, LetsGo, GoesOn, Acceptable

(* A step of one worker that is not gone.                                  *)
LEMMA WorkerGoesOn ==
  ASSUME NEW w \in Workers, pc[w] # "gone", UNCHANGED call
  PROVE  GoesOn
BY DEF GoesOn

LEMMA DisconnectNowLetsGo ==
  ASSUME NEW s, DisconnectNow(s), ~ Reusable
  PROVE  \A t \in Sockets : endpoint'[t] = "fresh" => endpoint[t] = "fresh"
BY DEF DisconnectNow, Disconnected

LEMMA BeginDisconnectLetsGo ==
  ASSUME NEW p \in Places, BeginDisconnect(p)
  PROVE  \A t \in Sockets : endpoint'[t] = "fresh" => endpoint[t] = "fresh"
BY DEF BeginDisconnect

LEMMA AcceptLetsGo ==
  ASSUME TypeOK, NEW w \in Workers,
         \/ Admit(w) \/ Refuse(w) \/ SeekRead(w) \/ SeekNewbiePlace(w)
         \/ NoPlace(w)
         \/ Claim(w) \/ StoreUsers(w) \/ BeginRecv(w)
  PROVE  LetsGo /\ GoesOn
<1> USE DEF TypeOK, ConnectTypeOK, At, connectVars, LetGo
<1>1. pc[w] # "gone" /\ UNCHANGED <<call, connectWorker, connectNewbie>>
  BY DEF Admit, Refuse, SeekRead, SeekNewbiePlace, NoPlace, Claim, StoreUsers,
         BeginRecv
<1>2. UNCHANGED mySocket
  BY DEF Admit, Refuse, SeekRead, SeekNewbiePlace, NoPlace, Claim, StoreUsers,
         BeginRecv, sessionVars
<1>3. CASE Refuse(w)
  BY <1>1, <1>2, <1>3, WorkerGoesOn, DisconnectNowLetsGo DEF Refuse, LetsGo
<1>4. CASE NoPlace(w)
  BY <1>1, <1>2, <1>4, WorkerGoesOn DEF NoPlace, LetsGo
<1>5. CASE \/ Admit(w) \/ SeekRead(w) \/ SeekNewbiePlace(w) \/ Claim(w)
           \/ StoreUsers(w)
           \/ BeginRecv(w)
  <2>1. UNCHANGED <<endpoint, hand>>
    BY <1>5 DEF Admit, SeekRead, SeekNewbiePlace, Claim, StoreUsers, BeginRecv
  <2> QED
    BY <1>1, <1>2, <2>1, WorkerGoesOn DEF LetsGo
<1> QED
  BY <1>3, <1>4, <1>5

LEMMA RecvLetsGo ==
  ASSUME TypeOK, NEW w \in Workers, RecvStep(w)
  PROVE  LetsGo /\ GoesOn
<1> USE DEF TypeOK, ConnectTypeOK, At, connectVars, sessionVars
<1>1. CASE Assemble(w) \/ SwallowAcquire(w) \/ RearmNot(w) \/ RequestAcquire(w)
  BY <1>1, WorkerGoesOn
     DEF Assemble, SwallowAcquire, RearmNot, RequestAcquire, LetsGo
<1>2. CASE Rearm(w)
  <2>1. /\ pc[w] # "gone"
        /\ UNCHANGED <<connectWorker, connectNewbie, call, hand, mySocket>>
    BY <1>2 DEF Rearm
  <2>2. \A t \in Sockets : endpoint'[t] = "fresh" => endpoint[t] = "fresh"
    BY <1>2, BeginDisconnectLetsGo DEF Rearm
  <2> QED
    BY <2>1, <2>2, WorkerGoesOn DEF LetsGo
<1>3. CASE HandleVersion(w) \/ HandleSignIn(w) \/ HandleNothing(w)
  BY <1>3, WorkerGoesOn
     DEF HandleVersion, HandleSignIn, HandleNothing, Handling, LetsGo
<1>4. CASE HandleDisposeGone(w) \/ DisposeForget(w) \/ DisposeRelease(w)
           \/ DisposeRestore(w)
  BY <1>4, WorkerGoesOn
     DEF HandleDisposeGone, DisposeForget, DisposeRelease, DisposeRestore,
         Handling, LetsGo
<1>5. CASE HandleDispose(w)
  <2>1. /\ pc[w] # "gone"
        /\ UNCHANGED <<connectWorker, connectNewbie, call, hand>>
    BY <1>5 DEF HandleDispose, Handling
  <2>2. \A p \in Places : mySocket'[p] \in {mySocket[p], NULL}
    BY <1>5 DEF HandleDispose, Cleanup
  <2>3. ~ Reusable =>
          \A s \in Sockets : endpoint'[s] = "fresh" => endpoint[s] = "fresh"
    BY <1>5, DisconnectNowLetsGo DEF HandleDispose
  <2> QED
    BY <2>1, <2>2, <2>3, WorkerGoesOn DEF LetsGo
<1> QED
  BY <1>1, <1>2, <1>3, <1>4, <1>5 DEF RecvStep

LEMMA DisposeLetsGo ==
  ASSUME TypeOK, NEW w \in Workers, DisposeStep(w)
  PROVE  LetsGo /\ GoesOn
<1> USE DEF TypeOK, ConnectTypeOK, At, connectVars, sessionVars
<1>1. CASE \/ DropAcquire(w) \/ DisposeGiveBack(w) \/ CleanAcquire(w)
           \/ Uncount(w)
  BY <1>1, WorkerGoesOn
     DEF DropAcquire, DisposeGiveBack, CleanAcquire, Uncount, LetsGo
<1>2. CASE Drop(w)
  <2>1. /\ pc[w] # "gone"
        /\ UNCHANGED <<connectWorker, connectNewbie, call, hand, mySocket>>
    BY <1>2 DEF Drop
  <2>2. \A t \in Sockets : endpoint'[t] = "fresh" => endpoint[t] = "fresh"
    BY <1>2, BeginDisconnectLetsGo DEF Drop
  <2> QED
    BY <2>1, <2>2, WorkerGoesOn DEF LetsGo
<1>3. CASE Clean(w)
  <2>1. pc[w] # "gone" /\ UNCHANGED connectVars
    BY <1>3 DEF Clean
  <2>2. \A p \in Places : mySocket'[p] \in {mySocket[p], NULL}
    BY <1>3 DEF Clean, Cleanup
  <2> QED
    BY <2>1, <2>2, WorkerGoesOn DEF LetsGo
<1> QED
  BY <1>1, <1>2, <1>3 DEF DisposeStep

LEMMA DequeueLetsGo ==
  ASSUME TypeOK, NEW w \in Workers, Dequeue(w)
  PROVE  LetsGo /\ GoesOn
BY WorkerGoesOn DEF Dequeue, At, connectVars, sessionVars, LetsGo

LEMMA KernelLetsGo ==
  ASSUME TypeOK, NEW s \in Sockets, KernelStep(s)
  PROVE  LetsGo /\ GoesOn
<1> USE DEF TypeOK, ConnectTypeOK, connectVars, sessionVars, workerVars,
            countVars
<1>1. CASE Deliver(s) \/ AbortRecv(s)
  BY <1>1 DEF Deliver, AbortRecv, LetsGo, GoesOn
<1>2. CASE Disconnects(s)
  BY <1>2 DEF Disconnects, Disconnected, LetsGo, GoesOn
<1> QED
  BY <1>1, <1>2 DEF KernelStep

-------------------------------------------------------------------------------
(* The others take a socket over.                                          *)

(* Update, which has the completion of AcceptEx, takes the socket it was   *)
(* for, and accepts on one that is fresh or on none.                       *)
LEMMA UpdateOwned ==
  ASSUME TypeOK, OneCompletion, Owned, NEW w \in Workers,
         AcceptLoad(w) \/ AcceptPop(w) \/ AcceptRearm(w)
  PROVE  Owned' /\ AcceptsOn'
<1> USE DEF TypeOK, ConnectTypeOK, At, sessionVars
<1>1. UNCHANGED mySocket
  BY DEF AcceptLoad, AcceptPop, AcceptRearm
<1>2. CASE AcceptLoad(w)
  <2>1. /\ connectWorker = "done" /\ connectWorker' = "idle"
        /\ hand' = [hand EXCEPT ![w] = connectNewbie]
        /\ UNCHANGED <<connectNewbie, endpoint>>
        /\ call'[w] = "pop"
    BY <1>2 DEF AcceptLoad, UpdateLoad, OneCompletion
  <2>2. /\ hand'[w] = connectNewbie
        /\ \A v \in Workers \ {w} : hand'[v] = hand[v]
    BY <2>1
  <2>3. OneOwner'
    BY <1>1, <2>1, <2>2 DEF Owned, OneOwner
  <2>4. Spare'
    BY <1>1, <2>1, <2>2 DEF Owned, Spare, Unowned
  <2> QED
    BY <2>1, <2>3, <2>4 DEF Owned, AcceptsOn
<1>3. CASE AcceptPop(w)
  <2>1. /\ connectWorker = "idle" /\ connectWorker' = "idle"
        /\ UNCHANGED <<hand, endpoint>> /\ call'[w] = "accept"
    BY <1>3 DEF AcceptPop, UpdatePop, OneCompletion
  <2> QED
    BY <1>1, <2>1 DEF Owned, OneOwner, Spare, Unowned, AcceptsOn
<1>4. CASE AcceptRearm(w)
  <2>1. /\ Accept(connectNewbie) /\ UNCHANGED <<connectNewbie, hand>>
        /\ connectWorker = "idle"
    BY <1>4 DEF AcceptRearm, UpdateAccept, OneCompletion
  <2>2. CASE Acceptable(connectNewbie)
    <3>1. /\ connectWorker' = "pending"
          /\ endpoint' = [endpoint EXCEPT ![connectNewbie] = "accepting"]
          /\ connectNewbie \in Sockets /\ endpoint[connectNewbie] = "fresh"
      BY <2>1, <2>2 DEF Accept, Acceptable
    <3>2. ~ Reusable => Unowned(connectNewbie)
      BY <3>1 DEF Owned, Spare
    <3>3. OneOwner'
      BY <1>1, <2>1, <3>2 DEF Owned, OneOwner, Unowned
    <3>4. Spare'
      BY <1>1, <2>1, <3>1 DEF Owned, Spare, Unowned
    <3> QED
      BY <3>1, <3>3, <3>4 DEF Owned, AcceptsOn
  <2>3. CASE ~ Acceptable(connectNewbie)
    <3>1. connectWorker' = "idle" /\ UNCHANGED endpoint
      BY <2>1, <2>3 DEF Accept
    <3> QED
      BY <1>1, <2>1, <2>3, <3>1
         DEF Owned, OneOwner, Spare, Unowned, AcceptsOn, Acceptable
  <2> QED
    BY <2>2, <2>3
<1> QED
  BY <1>2, <1>3, <1>4

(* Ready passes the socket from the worker to the session.                 *)
LEMMA ReadyOwned ==
  ASSUME TypeOK, Owned, AcceptsOn, NEW w \in Workers, Ready(w)
  PROVE  Owned' /\ AcceptsOn'
<1> USE DEF TypeOK, ConnectTypeOK, At, LetGo
<1>1. /\ UNCHANGED <<connectNewbie, connectWorker, endpoint, call>>
      /\ pc[w] = "ready" /\ spot[w] \in Places
  BY DEF Ready
<1>2. /\ mySocket'[spot[w]] = hand[w]
      /\ \A p \in Places \ {spot[w]} : mySocket'[p] = mySocket[p]
      /\ hand'[w] = NULL
      /\ \A v \in Workers \ {w} : hand'[v] = hand[v]
  BY DEF Ready
<1>3. OneOwner'
  <2> SUFFICES ASSUME ~ Reusable, NEW s \in Sockets
               PROVE  /\ \A p, q \in Places :
                           mySocket'[p] = s /\ mySocket'[q] = s => p = q
                      /\ \A u, v \in Workers :
                           hand'[u] = s /\ hand'[v] = s => u = v
                      /\ \A p \in Places, v \in Workers :
                           ~ (mySocket'[p] = s /\ hand'[v] = s)
                      /\ connectWorker' # "idle" /\ connectNewbie' = s =>
                           /\ \A p \in Places : mySocket'[p] # s
                           /\ \A v \in Workers : hand'[v] # s
    BY DEF OneOwner
  <2>1. s # NULL
    BY ConnectAssumption
  <2>2. /\ \A p, q \in Places : mySocket[p] = s /\ mySocket[q] = s => p = q
        /\ \A u, v \in Workers : hand[u] = s /\ hand[v] = s => u = v
        /\ \A p \in Places, v \in Workers : ~ (mySocket[p] = s /\ hand[v] = s)
        /\ connectWorker # "idle" /\ connectNewbie = s =>
             /\ \A p \in Places : mySocket[p] # s
             /\ \A v \in Workers : hand[v] # s
    BY DEF Owned, OneOwner
  <2>3. CASE hand[w] = s
    <3>1. /\ \A p \in Places : mySocket[p] # s
          /\ \A v \in Workers \ {w} : hand[v] # s
          /\ ~ (connectWorker # "idle" /\ connectNewbie = s)
      BY <2>2, <2>3
    <3>2. /\ \A p \in Places : mySocket'[p] = s => p = spot[w]
          /\ \A v \in Workers : hand'[v] # s
      BY <1>1, <1>2, <2>1, <3>1
    <3> QED
      BY <1>1, <3>1, <3>2
  <2>4. CASE hand[w] # s
    <3>1. /\ \A p \in Places : mySocket'[p] = s => mySocket[p] = s
          /\ \A v \in Workers : hand'[v] = s => hand[v] = s
      BY <1>1, <1>2, <2>1, <2>4
    <3> QED
      BY <1>1, <2>2, <3>1
  <2> QED
    BY <2>3, <2>4
<1>4. Spare'
  <2> SUFFICES ASSUME ~ Reusable, NEW s \in Sockets, endpoint[s] = "fresh"
               PROVE  /\ Unowned(s)'
                      /\ connectWorker # "idle" => connectNewbie # s
    BY <1>1 DEF Spare
  <2>1. Unowned(s) /\ (connectWorker # "idle" => connectNewbie # s)
    BY DEF Owned, Spare
  <2>2. \A p \in Places : mySocket'[p] # s
    BY <1>1, <1>2, <2>1 DEF Unowned
  <2>3. \A v \in Workers : hand'[v] # s
    BY SMTT(30), <1>2, <2>1, ConnectAssumption DEF Unowned
  <2> QED
    BY <2>1, <2>2, <2>3 DEF Unowned
<1>5. AcceptsOn'
  BY <1>1 DEF AcceptsOn, Acceptable
<1> QED
  BY <1>3, <1>4, <1>5 DEF Owned

(* AcceptEx completes: its socket is not fresh then.                       *)
LEMMA ArriveOwned ==
  ASSUME TypeOK, Owned, ClientConnects \/ AcceptFails
  PROVE  Owned' /\ AcceptsOn'
<1> USE DEF TypeOK, ConnectTypeOK, sessionVars
<1>1. /\ connectWorker = "pending" /\ connectWorker' = "done"
      /\ UNCHANGED <<connectNewbie, hand, mySocket>>
      /\ \A s \in Sockets : endpoint'[s] = "fresh" => endpoint[s] = "fresh"
  BY DEF ClientConnects, ClientArrives, AcceptFails
<1> QED
  BY <1>1 DEF Owned, OneOwner, Spare, Unowned, AcceptsOn

(* The threads end: nothing changes hands, and the server runs no more.    *)
LEMMA TerminateOwned ==
  ASSUME Owned, Terminate PROVE Owned' /\ AcceptsOn'
<1>1. LetsGo
  BY DEF Terminate, LetsGo, sessionVars
<1>2. \A w \in Workers : pc'[w] = "gone"
  BY DEF Terminate
<1> QED
  BY <1>1, <1>2, LetsGoOwned DEF AcceptsOn

LEMMA OwnedStep ==
  TypeOK /\ OneCompletion /\ Owned /\ AcceptsOn /\ [Next]_vars
    => Owned' /\ AcceptsOn'
<1> SUFFICES ASSUME TypeOK, OneCompletion, Owned, AcceptsOn, [Next]_vars
             PROVE  Owned' /\ AcceptsOn'
  OBVIOUS
<1>1. ASSUME LetsGo, GoesOn PROVE Owned' /\ AcceptsOn'
  BY <1>1, LetsGoOwned, LetsGoAccepts
<1>2. ASSUME NEW w \in Workers, WorkerStep(w) PROVE Owned' /\ AcceptsOn'
  <2>1. CASE Dequeue(w)
    BY <1>1, <2>1, DequeueLetsGo
  <2>2. CASE Throw(w) \/ SignInThrows(w)
    BY <2>2, TerminateOwned DEF Throw, SignInThrows
  <2>3. CASE AcceptStep(w)
    BY <1>1, <2>3, AcceptLetsGo, UpdateOwned, ReadyOwned DEF AcceptStep
  <2>4. CASE RecvStep(w) \/ DisposeStep(w)
    BY <1>1, <2>4, RecvLetsGo, DisposeLetsGo
  <2> QED
    BY <1>2, <2>1, <2>2, <2>3, <2>4 DEF WorkerStep
<1>3. ASSUME NEW s \in Sockets, KernelStep(s) PROVE Owned' /\ AcceptsOn'
  BY <1>1, <1>3, KernelLetsGo
<1>4. CASE ClientStep
  <2>1. CASE ClientConnects \/ AcceptFails
    BY <2>1, ArriveOwned
  <2>2. CASE ~ (ClientConnects \/ AcceptFails)
    <3>1. UNCHANGED <<connectVars, mySocket, pc>>
      BY <1>4, <2>2 DEF ClientStep, ClientSends, ClientLeaves, sessionVars,
                        workerVars, countVars
    <3> QED
      BY <1>1, <3>1 DEF LetsGo, GoesOn, connectVars
  <2> QED
    BY <2>1, <2>2
<1>5. CASE UNCHANGED vars
  <2>1. UNCHANGED <<connectVars, mySocket, pc>>
    BY <1>5 DEF vars, sessionVars, workerVars, countVars
  <2> QED
    BY <1>1, <2>1 DEF LetsGo, GoesOn, connectVars
<1> QED
  BY <1>2, <1>3, <1>4, <1>5 DEF Next

LEMMA InitOwned == Init => Owned /\ AcceptsOn
<1> SUFFICES ASSUME Init PROVE Owned /\ AcceptsOn
  OBVIOUS
<1>1. PICK pool \in Pools :
        /\ connectNewbie = Head(pool) /\ connectWorker = "pending"
        /\ endpoint = [s \in Sockets |->
                         IF s = Head(pool) THEN "accepting" ELSE "fresh"]
  BY DEF Init, ConnectInit
<1>2. /\ \A p \in Places : mySocket[p] = NULL
      /\ \A w \in Workers : hand[w] = NULL
  BY DEF Init, ConnectInit
<1> QED
  BY <1>1, <1>2, ConnectAssumption
     DEF Owned, OneOwner, Spare, Unowned, AcceptsOn

(* No socket has two owners, however many workers accept at once: no two   *)
(* sessions have one connection, and AcceptEx never waits on a socket that *)
(* a session or a worker has.                                              *)
THEOREM FrameworkOneOwner == Spec => []OneOwner
BY InitOwned, OwnedStep, InitOneCompletion, OneCompletionStep, FrameworkTyping,
   PTL DEF Spec, Owned

(* No sequence of completions, failed ones included, makes Update leave    *)
(* the server without AcceptEx on a socket that could be accepted on.      *)
THEOREM FrameworkAcceptsOn == Spec => []AcceptsOn
BY InitOwned, OwnedStep, InitOneCompletion, OneCompletionStep, FrameworkTyping,
   PTL DEF Spec

-------------------------------------------------------------------------------
(* What is left of a connection that has ended.  Where nothing fails, the  *)
(* acceptor and the workers have sockets that are connected, and only a    *)
(* worker in AcceptPlayer is at another session than session 0, the one    *)
(* that every completion names.                                            *)
NoFault ==
  ~ Faults =>
    /\ \A w \in Workers : pc[w] \notin {"throw", "gone"}
    /\ \A i \in Nat :
         i \in 1..Len(port) /\ port[i].op \in {"ACCEPT", "DISPOSE"}
           => port[i].ok

Departed == {"claim", "ready", "store", "begin", "port", "gone"}

Placed == \A w \in Workers : spot[w] = Key \/ pc[w] \in Departed

Connected(s) == s # NULL => endpoint[s] = "connected"

(* NoneForgotten is not inductive: it does not see that a session is given *)
(* a socket that is connected, nor that no other session than session 0    *)
(* can lose its connection.                                                *)
Greeted ==
  /\ connectWorker = "done" => Connected(connectNewbie)
  /\ \A w \in Workers : Connected(hand[w])
  /\ \A p \in Places \ {Key} : Connected(mySocket[p])

Cleaning(w) == pc[w] \in {"giveback", "cleaning", "clean"}

Remembered ==
  mySocket[Key] # NULL /\ ~ Live(mySocket[Key]) =>
    ~ NoneEnding \/ \E w \in Workers : Cleaning(w)

Aftercare == ~ Reusable /\ ~ Faults => Greeted /\ Remembered

LEMMA NoFaultStep ==
  TypeOK /\ NoFault /\ [Next]_vars => NoFault'
<1> SUFFICES ASSUME TypeOK, NoFault, [Next]_vars, ~ Faults PROVE NoFault'
  BY DEF NoFault
<1> USE DEF TypeOK, At, Goto
<1> DEFINE Fine(c) == c.op \in {"ACCEPT", "DISPOSE"} => c.ok
<1>1. ASSUME \A w \in Workers : pc'[w] \in {"throw", "gone"} => pc'[w] = pc[w],
             port' = port \/ \E c \in Completions : Post(c) /\ Fine(c)
      PROVE  NoFault'
  <2>1. CASE port' = port
    BY <1>1, <2>1 DEF NoFault
  <2>2. CASE \E c \in Completions : Post(c) /\ Fine(c)
    <3>1. PICK c \in Completions : Post(c) /\ Fine(c)
      BY <2>2
    <3>2. \A i \in Nat : i \in 1..Len(port') =>
            \/ i \in 1..Len(port) /\ port'[i] = port[i]
            \/ port'[i] = c
      BY <3>1, AfterPost
    <3> QED
      BY <1>1, <3>1, <3>2 DEF NoFault
  <2> QED
    BY <1>1, <2>1, <2>2
<1>2. ASSUME NEW p \in Places, NEW probe \in BOOLEAN, NEW at \in Nat,
             Recv(p, probe, at)
      PROVE  port' = port \/ \E c \in Completions : Post(c) /\ Fine(c)
  <2> DEFINE r == [place |-> p, probe |-> probe, at |-> at]
  <2> SUFFICES ASSUME port' # port
               PROVE  \E c \in Completions : Post(c) /\ Fine(c)
    OBVIOUS
  <2>1. CompleteRecv(mySocket[p], r)
    BY <1>2 DEF Recv
  <2>2. PICK data \in BOOLEAN : Post(Received(r, TRUE, data))
    BY <2>1 DEF CompleteRecv
  <2>3. /\ Received(r, TRUE, data) \in Completions
        /\ Received(r, TRUE, data).op = "RECV"
    BY DEF Received, Completions, Operations
  <2> QED
    BY <2>2, <2>3
<1>3. ASSUME NEW w \in Workers, WorkerStep(w) PROVE NoFault'
  <2>1. pc[w] # "throw" /\ pc[w] # "gone"
    BY DEF NoFault
  <2>2. CASE Dequeue(w)
    <3>1. Head(port) = port[1] /\ 1 \in 1..Len(port) /\ port' = Tail(port)
          /\ pc'[w] = Route(Head(port)) /\ Head(port) \in Completions
          /\ \A v \in Workers \ {w} : pc'[v] = pc[v]
      BY <2>2, DequeueMoves DEF Dequeue
    <3>2. Fine(port[1])
      BY <3>1 DEF NoFault
    <3>3. pc'[w] \notin {"throw", "gone"}
      BY <3>1, <3>2 DEF Route, Completions, Operations
    <3>4. \A i \in Nat : i \in 1..Len(port') =>
            i + 1 \in 1..Len(port) /\ port'[i] = port[i + 1] /\ i + 1 \in Nat
      BY <2>2, AfterDequeue DEF Dequeue
    <3> QED
      BY <3>1, <3>3, <3>4 DEF NoFault
  <2>3. CASE Throw(w) \/ SignInThrows(w)
    BY <2>1, <2>3 DEF Throw, SignInThrows
  <2>4. CASE AcceptStep(w) /\ ~ BeginRecv(w)
    <3>1. port' = port /\ \A v \in Workers : pc'[v] \notin {"throw", "gone"}
                                              \/ pc'[v] = pc[v]
      BY <2>4 DEF AcceptStep, AcceptLoad, AcceptPop, AcceptRearm, Admit,
                  Refuse, SeekRead, SeekNewbiePlace, NoPlace, Claim, Ready,
                  StoreUsers,
                  workerVars, countVars
    <3> QED
      BY <1>1, <3>1
  <2>5. CASE BeginRecv(w)
    <3>1. (~ sized[spot[w]]) \in BOOLEAN /\ buf[spot[w]] \in Nat
      OBVIOUS
    <3> QED
      BY <1>1, <1>2, <2>5, <3>1 DEF BeginRecv
  <2>6. CASE Rearm(w)
    <3>1. /\ pc'[w] \in {"port", "request"}
          /\ \A v \in Workers \ {w} : pc'[v] = pc[v]
      BY <2>6 DEF Rearm, Swallowed
    <3>2. myRecvSize[spot[w]] \in Nat /\ spot[w] \in Places
      OBVIOUS
    <3> QED
      BY <1>1, <1>2, <2>6, <3>1, <3>2 DEF Rearm
  <2>7. CASE RecvStep(w) /\ ~ Rearm(w)
    <3>1. port' = port /\ \A v \in Workers : pc'[v] \notin {"throw", "gone"}
                                              \/ pc'[v] = pc[v]
      BY <2>7 DEF RecvStep, Assemble, SwallowAcquire, RearmNot, RequestAcquire,
                  HandleVersion, HandleSignIn, HandleNothing,
                  HandleDisposeGone, DisposeForget, HandleDispose,
                  DisposeRelease, DisposeRestore, Swallowed
    <3> QED
      BY <1>1, <3>1
  <2>8. CASE DisposeStep(w)
    <3>1. port' = port /\ \A v \in Workers : pc'[v] \notin {"throw", "gone"}
                                              \/ pc'[v] = pc[v]
      BY <2>8 DEF DisposeStep, DropAcquire, Drop, DisposeGiveBack,
                  CleanAcquire, Clean, Uncount
    <3> QED
      BY <1>1, <3>1
  <2> QED
    BY <1>3, <2>2, <2>3, <2>4, <2>5, <2>6, <2>7, <2>8 DEF WorkerStep
<1>4. ASSUME NEW s \in Sockets, KernelStep(s) PROVE NoFault'
  <2>1. pc' = pc
    BY <1>4 DEF KernelStep, Deliver, AbortRecv, Disconnects, workerVars,
                countVars
  <2>2. CASE Deliver(s) \/ AbortRecv(s)
    <3>1. PICK ok \in BOOLEAN, data \in BOOLEAN :
            Post(Received(Head(recvq[s]), ok, data))
      BY <2>2 DEF Deliver, AbortRecv, CompleteRecv
    <3>2. Head(recvq[s]) \in Receives
      BY <2>2, SeqType DEF Deliver, AbortRecv
    <3>3. /\ Received(Head(recvq[s]), ok, data) \in Completions
          /\ Received(Head(recvq[s]), ok, data).op = "RECV"
      BY <3>2 DEF Received, Receives, Completions, Operations
    <3> QED
      BY <1>1, <2>1, <3>1, <3>3
  <2>3. CASE Disconnects(s)
    <3>1. Post(Done("DISPOSE", TRUE))
      BY <2>3 DEF Disconnects
    <3>2. Done("DISPOSE", TRUE) \in Completions /\ Done("DISPOSE", TRUE).ok
      BY MaxUsersNat DEF Done, Completions, Operations, Places
    <3> QED
      BY <1>1, <2>1, <3>1, <3>2
  <2> QED
    BY <1>4, <2>2, <2>3 DEF KernelStep
<1>5. CASE ClientStep
  <2>1. pc' = pc /\ ~ AcceptFails
    BY <1>5 DEF ClientStep, ClientConnects, AcceptFails, ClientSends,
                ClientLeaves, workerVars, countVars
  <2>2. CASE ClientConnects
    <3>1. Post(Done("ACCEPT", TRUE))
      BY <2>2 DEF ClientConnects
    <3>2. Done("ACCEPT", TRUE) \in Completions /\ Done("ACCEPT", TRUE).ok
      BY MaxUsersNat DEF Done, Completions, Operations, Places
    <3> QED
      BY <1>1, <2>1, <3>1, <3>2
  <2>3. CASE ~ ClientConnects
    <3>1. port' = port
      BY <1>5, <2>1, <2>3 DEF ClientStep, ClientSends, ClientLeaves
    <3> QED
      BY <1>1, <2>1, <3>1
  <2> QED
    BY <2>2, <2>3
<1>6. CASE UNCHANGED vars
  BY <1>1, <1>6 DEF vars, workerVars, countVars
<1> QED
  BY <1>3, <1>4, <1>5, <1>6 DEF Next

(* A completion of a receive loses no disconnection.                       *)
LEMMA RecvKeeps ==
  ASSUME TypeOK, NEW p \in Places, NEW probe \in BOOLEAN, NEW at \in Nat,
         Recv(p, probe, at)
  PROVE  \A i \in Nat : Ending(i) => Ending(i)'
<1>1. CASE port' = port
  BY <1>1 DEF Ending
<1>2. CASE port' # port
  <2> DEFINE r == [place |-> p, probe |-> probe, at |-> at]
  <2>1. CompleteRecv(mySocket[p], r)
    BY <1>2 DEF Recv
  <2>2. PICK data \in BOOLEAN : Post(Received(r, TRUE, data))
    BY <2>1 DEF CompleteRecv
  <2>3. Received(r, TRUE, data) \in Completions
    BY DEF Received, Completions, Operations
  <2> QED
    BY <2>2, <2>3, AfterPost DEF TypeOK, Ending
<1> QED
  BY <1>1, <1>2

LEMMA BeginDisconnectKeeps ==
  ASSUME NEW p \in Places, BeginDisconnect(p)
  PROVE  \A s \in Sockets : Live(s) => Live(s)'
BY DEF BeginDisconnect, Live

LEMMA KeyPlace == Key \in Places
BY MaxUsersNat DEF Key, Places

(* A worker is at another session from SeekNewbiePlace until it is back at *)
(* the port; the next completion brings it back to session 0.              *)
LEMMA PlacedStep ==
  TypeOK /\ Placed /\ [Next]_vars => Placed'
<1> SUFFICES ASSUME TypeOK, Placed, [Next]_vars PROVE Placed'
  OBVIOUS
<1> USE DEF TypeOK, At, Goto, Departed, sessionVars, workerVars, countVars
<1>1. ASSUME NEW w \in Workers,
             \A v \in Workers \ {w} : pc'[v] = pc[v] /\ spot'[v] = spot[v],
             \/ spot'[w] = Key \/ pc'[w] \in Departed
             \/ spot'[w] = spot[w] /\ pc[w] \notin Departed
      PROVE  Placed'
  BY <1>1 DEF Placed
<1>2. ASSUME NEW w \in Workers, WorkerStep(w) PROVE Placed'
  <2>1. CASE Dequeue(w)
    BY <1>1, <2>1 DEF Dequeue
  <2>2. CASE Throw(w) \/ SignInThrows(w)
    BY <2>2 DEF Throw, SignInThrows, Terminate, Placed
  <2>3. CASE AcceptStep(w)
    <3>1. CASE AcceptPop(w)
      BY <3>1 DEF AcceptPop, Placed
    <3>2. CASE AcceptLoad(w) \/ AcceptRearm(w) \/ Admit(w) \/ Refuse(w)
      BY <1>1, <3>2 DEF AcceptLoad, AcceptRearm, Admit, Refuse
    <3>3. CASE \/ SeekRead(w) \/ SeekNewbiePlace(w) \/ NoPlace(w) \/ Claim(w)
               \/ StoreUsers(w)
               \/ BeginRecv(w)
      BY <1>1, <3>3 DEF SeekRead, SeekNewbiePlace, NoPlace, Claim, StoreUsers,
                        BeginRecv
    <3>4. CASE Ready(w)
      <4>1. /\ pc'[w] \in {"store", "port"} /\ spot' = spot
            /\ \A v \in Workers \ {w} : pc'[v] = pc[v]
        BY <3>4 DEF Ready
      <4> QED
        BY <1>1, <4>1
    <3> QED
      BY <2>3, <3>1, <3>2, <3>3, <3>4 DEF AcceptStep
  <2>4. CASE RecvStep(w)
    <3>1. spot' = spot /\ \A v \in Workers \ {w} : pc'[v] = pc[v]
      BY <2>4 DEF RecvStep, Assemble, SwallowAcquire, RearmNot, Rearm,
                  RequestAcquire, HandleVersion, HandleSignIn, HandleNothing,
                  HandleDisposeGone, DisposeForget, HandleDispose,
                  DisposeRelease, DisposeRestore
    <3>2. pc[w] \notin Departed
      BY <2>4 DEF RecvStep, Assemble, SwallowAcquire, RearmNot, Rearm,
                  RequestAcquire, Handling, HandleVersion, HandleSignIn,
                  HandleNothing, HandleDisposeGone, DisposeForget,
                  HandleDispose, DisposeRelease, DisposeRestore
    <3> QED
      BY <1>1, <3>1, <3>2
  <2>5. CASE DisposeStep(w)
    <3>1. /\ spot' = spot /\ \A v \in Workers \ {w} : pc'[v] = pc[v]
          /\ pc[w] \notin Departed
      BY <2>5 DEF DisposeStep, DropAcquire, Drop, DisposeGiveBack,
                  CleanAcquire, Clean, Uncount
    <3> QED
      BY <1>1, <3>1
  <2> QED
    BY <1>2, <2>1, <2>2, <2>3, <2>4, <2>5 DEF WorkerStep
<1>3. CASE (\E s \in Sockets : KernelStep(s)) \/ ClientStep \/ UNCHANGED vars
  <2>1. UNCHANGED <<pc, spot>>
    BY <1>3 DEF KernelStep, Deliver, AbortRecv, Disconnects, ClientStep,
                ClientConnects, AcceptFails, ClientSends, ClientLeaves, vars
  <2> QED
    BY <2>1 DEF Placed
<1> QED
  BY <1>2, <1>3 DEF Next

(* Steps that lose no connection but that of session 0, or one that a      *)
(* worker lets go of, and no disconnection.                                *)
Follows ==
  /\ \A s \in Sockets : endpoint[s] = "connected" /\ endpoint'[s] # "connected" =>
       s = mySocket[Key] \/ \E v \in Workers : hand[v] = s /\ hand'[v] = NULL
  /\ \A s \in Sockets : Live(s) /\ mySocket'[Key] = s => Live(s)'
  /\ \A i \in Nat : Ending(i) => Ending(i)'
  /\ mySocket'[Key] # NULL => \A v \in Workers : Cleaning(v) => Cleaning(v)'

LEMMA FollowsStep ==
  ASSUME TypeOK, OneOwner, ~ Reusable, Greeted, Remembered, LetsGo, Follows
  PROVE  Greeted' /\ Remembered'
<1> USE KeyPlace DEF TypeOK, ConnectTypeOK
<1>1. ASSUME NEW s \in Sockets, endpoint[s] = "connected",
             s # mySocket[Key],
             \A v \in Workers : hand[v] = s => hand'[v] # NULL
      PROVE  endpoint'[s] = "connected"
  BY <1>1 DEF Follows
<1>2. connectWorker' = "done" => Connected(connectNewbie)'
  <2> SUFFICES ASSUME connectWorker' = "done", connectNewbie' # NULL
               PROVE  endpoint'[connectNewbie'] = "connected"
    BY DEF Connected
  <2>1. /\ connectNewbie \in Sockets /\ connectNewbie' = connectNewbie
        /\ connectWorker # "idle" /\ endpoint[connectNewbie] = "connected"
    BY DEF LetsGo, Greeted, Connected
  <2>2. /\ connectNewbie # mySocket[Key]
        /\ \A v \in Workers : hand[v] # connectNewbie
    BY <2>1 DEF OneOwner
  <2> QED
    BY <1>1, <2>1, <2>2
<1>3. ASSUME NEW w \in Workers PROVE Connected(hand[w])'
  <2> SUFFICES ASSUME hand'[w] # NULL PROVE endpoint'[hand'[w]] = "connected"
    BY DEF Connected
  <2>1. /\ hand'[w] = hand[w] /\ hand[w] \in Sockets
        /\ endpoint[hand[w]] = "connected"
    BY DEF LetsGo, Greeted, Connected
  <2>2. /\ hand[w] # mySocket[Key]
        /\ \A v \in Workers : hand[v] = hand[w] => v = w
    BY <2>1 DEF OneOwner
  <2> QED
    BY <1>1, <2>1, <2>2
<1>4. ASSUME NEW p \in Places \ {Key} PROVE Connected(mySocket[p])'
  <2> SUFFICES ASSUME mySocket'[p] # NULL
               PROVE  endpoint'[mySocket'[p]] = "connected"
    BY DEF Connected
  <2>1. /\ mySocket'[p] = mySocket[p] /\ mySocket[p] \in Sockets
        /\ endpoint[mySocket[p]] = "connected"
    BY DEF LetsGo, Greeted, Connected
  <2>2. /\ mySocket[p] # mySocket[Key]
        /\ \A v \in Workers : hand[v] # mySocket[p]
    BY <2>1 DEF OneOwner
  <2> QED
    BY <1>1, <2>1, <2>2
<1>5. Remembered'
  <2> SUFFICES ASSUME mySocket'[Key] # NULL, ~ Live(mySocket[Key])'
               PROVE  ~ NoneEnding' \/ \E w \in Workers : Cleaning(w)'
    BY DEF Remembered
  <2>1. mySocket'[Key] = mySocket[Key] /\ mySocket[Key] \in Sockets
    BY DEF LetsGo
  <2>2. ~ Live(mySocket[Key])
    BY <2>1 DEF Follows, Live
  <2>3. ~ NoneEnding \/ \E w \in Workers : Cleaning(w)
    BY <2>1, <2>2, ConnectAssumption DEF Remembered
  <2> QED
    BY <2>3 DEF Follows, NoneEnding
<1> QED
  BY <1>2, <1>3, <1>4, <1>5 DEF Greeted

LEMMA QuietFollows ==
  ASSUME UNCHANGED endpoint, \A i \in Nat : Ending(i) => Ending(i)',
         \A v \in Workers : Cleaning(v) => Cleaning(v)'
  PROVE  Follows
BY DEF Follows, Live

LEMMA AcceptFollows ==
  ASSUME TypeOK, OneOwner, ~ Reusable, NEW w \in Workers,
         \/ Admit(w) \/ Refuse(w) \/ SeekRead(w) \/ SeekNewbiePlace(w)
         \/ NoPlace(w)
         \/ Claim(w) \/ StoreUsers(w) \/ BeginRecv(w)
  PROVE  Follows
<1> USE DEF TypeOK, ConnectTypeOK, At, Goto, connectVars, Cleaning
<1>1. CASE \/ Admit(w) \/ SeekRead(w) \/ SeekNewbiePlace(w) \/ NoPlace(w)
           \/ Claim(w)
           \/ StoreUsers(w)
  <2>1. UNCHANGED <<endpoint, port>>
    BY <1>1 DEF Admit, SeekRead, SeekNewbiePlace, NoPlace, Claim, StoreUsers
  <2>2. \A v \in Workers : Cleaning(v) => Cleaning(v)'
    BY <1>1 DEF Admit, SeekRead, SeekNewbiePlace, NoPlace, Claim, StoreUsers
  <2> QED
    BY <2>1, <2>2, QuietFollows DEF Ending
<1>2. CASE BeginRecv(w)
  <2>1. (~ sized[spot[w]]) \in BOOLEAN /\ buf[spot[w]] \in Nat
    OBVIOUS
  <2> QED
    BY <1>2, <2>1, RecvKeeps, QuietFollows DEF BeginRecv
<1>3. CASE Refuse(w)
  <2>1. /\ UNCHANGED <<port, mySocket>>
        /\ hand'[w] = NULL
        /\ \A v \in Workers : Cleaning(v) => Cleaning(v)'
        /\ \A s \in Sockets : s # hand[w] => endpoint'[s] = endpoint[s]
    BY <1>3 DEF Refuse, LetGo, DisconnectNow, sessionVars
  <2>2. \A s \in Sockets : mySocket[Key] = s => s # hand[w]
    BY KeyPlace DEF OneOwner
  <2> QED
    BY <2>1, <2>2 DEF Follows, Ending, Live
<1> QED
  BY <1>1, <1>2, <1>3

LEMMA RecvFollows ==
  ASSUME TypeOK, Placed, NEW w \in Workers, RecvStep(w)
  PROVE  Follows
<1> USE KeyPlace DEF TypeOK, ConnectTypeOK, At, Goto, Cleaning
<1>1. CASE Rearm(w)
  <2>1. spot[w] = Key /\ pc[w] = "rearm" /\ myRecvSize[Key] \in Nat
    BY <1>1 DEF Placed, Departed, Rearm
  <2>2. \A i \in Nat : Ending(i) => Ending(i)'
    BY <1>1, <2>1, RecvKeeps DEF Rearm
  <2>3. /\ \A s \in Sockets : Live(s) => Live(s)'
        /\ \A s \in Sockets : s # mySocket[Key] => endpoint'[s] = endpoint[s]
    BY <1>1, <2>1, BeginDisconnectKeeps DEF Rearm, BeginDisconnect, Live
  <2>4. \A v \in Workers : Cleaning(v) => Cleaning(v)'
    BY <1>1, <2>1 DEF Rearm
  <2> QED
    BY <2>2, <2>3, <2>4 DEF Follows
<1>2. CASE HandleDispose(w)
  <2>1. spot[w] = Key /\ pc[w] = "handle"
    BY <1>2 DEF Placed, Departed, HandleDispose, Handling
  <2>2. /\ port' = port /\ mySocket'[Key] = NULL
        /\ \A s \in Sockets : s # mySocket[Key] => endpoint'[s] = endpoint[s]
    BY <1>2, <2>1 DEF HandleDispose, Cleanup, DisconnectNow
  <2> QED
    BY <2>2, ConnectAssumption DEF Follows, Ending
<1>3. CASE ~ Rearm(w) /\ ~ HandleDispose(w)
  <2>1. UNCHANGED <<endpoint, port>>
    BY <1>3 DEF RecvStep, Assemble, SwallowAcquire, RearmNot, RequestAcquire,
                HandleVersion, HandleSignIn, HandleNothing, HandleDisposeGone,
                DisposeForget, DisposeRelease, DisposeRestore, connectVars
  <2>2. ~ Cleaning(w) /\ \A v \in Workers \ {w} : pc'[v] = pc[v]
    BY <1>3 DEF RecvStep, Assemble, SwallowAcquire, RearmNot, RequestAcquire,
                Handling, HandleVersion, HandleSignIn, HandleNothing,
                HandleDisposeGone, DisposeForget, DisposeRelease,
                DisposeRestore
  <2> QED
    BY <2>1, <2>2, QuietFollows DEF Ending
<1> QED
  BY <1>1, <1>2, <1>3

LEMMA DisposeFollows ==
  ASSUME TypeOK, Placed, NEW w \in Workers, DisposeStep(w)
  PROVE  Follows
<1> USE KeyPlace DEF TypeOK, ConnectTypeOK, At, Goto, Cleaning, connectVars
<1>1. CASE Drop(w)
  <2>1. spot[w] = Key /\ pc[w] = "drop" /\ port' = port
    BY <1>1 DEF Placed, Departed, Drop
  <2>2. /\ \A s \in Sockets : Live(s) => Live(s)'
        /\ \A s \in Sockets : s # mySocket[Key] => endpoint'[s] = endpoint[s]
    BY <1>1, <2>1, BeginDisconnectKeeps DEF Drop, BeginDisconnect
  <2>3. \A v \in Workers : Cleaning(v) => Cleaning(v)'
    BY <1>1, <2>1 DEF Drop
  <2> QED
    BY <2>1, <2>2, <2>3 DEF Follows, Ending
<1>2. CASE Clean(w)
  <2>1. spot[w] = Key
    BY <1>2 DEF Placed, Departed, Clean
  <2>2. UNCHANGED <<endpoint, port>> /\ mySocket'[Key] = NULL
    BY <1>2, <2>1 DEF Clean, Cleanup
  <2> QED
    BY <2>2 DEF Follows, Ending, Live
<1>3. CASE \/ DropAcquire(w) \/ DisposeGiveBack(w) \/ CleanAcquire(w)
           \/ Uncount(w)
  <2>1. UNCHANGED <<endpoint, port>>
    BY <1>3 DEF DropAcquire, DisposeGiveBack, CleanAcquire, Uncount
  <2>2. \A v \in Workers : Cleaning(v) => Cleaning(v)'
    BY <1>3 DEF DropAcquire, DisposeGiveBack, CleanAcquire, Uncount
  <2> QED
    BY <2>1, <2>2, QuietFollows DEF Ending
<1> QED
  BY <1>1, <1>2, <1>3 DEF DisposeStep

LEMMA NetFollows ==
  ASSUME TypeOK,
         \/ \E s \in Sockets : Deliver(s) \/ AbortRecv(s)
         \/ ClientStep /\ ~ ClientConnects /\ ~ AcceptFails
         \/ UNCHANGED vars
  PROVE  LetsGo /\ Follows
<1> USE DEF TypeOK, ConnectTypeOK, connectVars, sessionVars, workerVars,
            countVars
<1>1. UNCHANGED <<connectNewbie, connectWorker, mySocket, hand, endpoint, pc>>
  BY DEF Deliver, AbortRecv, ClientStep, ClientSends, ClientLeaves, vars
<1>2. \A i \in Nat : Ending(i) => Ending(i)'
  <2>1. CASE port' = port
    BY <2>1 DEF Ending
  <2>2. CASE port' # port
    <3>1. PICK s \in Sockets : Deliver(s) \/ AbortRecv(s)
      BY <2>2 DEF ClientStep, ClientSends, ClientLeaves, vars
    <3>2. PICK ok \in BOOLEAN, data \in BOOLEAN :
            Post(Received(Head(recvq[s]), ok, data))
      BY <3>1 DEF Deliver, AbortRecv, CompleteRecv
    <3>3. Head(recvq[s]) \in Receives
      BY <3>1, SeqType DEF Deliver, AbortRecv
    <3>4. Received(Head(recvq[s]), ok, data) \in Completions
      BY <3>3 DEF Received, Receives, Completions, Operations
    <3> QED
      BY <3>2, <3>4, AfterPost DEF Ending
  <2> QED
    BY <2>1, <2>2
<1>3. Follows
  BY <1>1, <1>2, QuietFollows DEF Cleaning
<1> QED
  BY <1>1, <1>3 DEF LetsGo

(* The completion of a disconnection passes to a worker.                   *)
LEMMA DequeueAftercare ==
  ASSUME TypeOK, NoFault, ~ Faults, Greeted, Remembered, NEW w \in Workers,
         Dequeue(w)
  PROVE  Greeted' /\ Remembered'
<1>1. UNCHANGED <<connectNewbie, connectWorker, hand, endpoint, mySocket>>
  BY DEF Dequeue, connectVars, sessionVars
<1>2. Greeted'
  BY <1>1 DEF Greeted, Connected
<1>3. Remembered'
  <2> SUFFICES ASSUME mySocket[Key] # NULL, ~ Live(mySocket[Key])
               PROVE  ~ NoneEnding' \/ \E v \in Workers : Cleaning(v)'
    BY <1>1 DEF Remembered, Live
  <2>1. CASE \E v \in Workers : Cleaning(v)
    BY <2>1, DequeueMoves DEF Cleaning
  <2>2. CASE ~ NoneEnding
    <3>1. PICK i \in Nat : Ending(i)
      BY <2>2 DEF NoneEnding
    <3>2. CASE i = 1
      <4>1. Head(port).op = "DISPOSE" /\ Head(port).ok
        BY <3>1, <3>2, DequeueMoves DEF Ending, NoFault
      <4> QED
        BY <4>1, DequeueMoves DEF Route, Cleaning
    <3>3. CASE i # 1
      <4>1. Ending(i - 1)' /\ i - 1 \in Nat
        BY <3>1, <3>3, DequeueMoves
      <4> QED
        BY <4>1 DEF NoneEnding
    <3> QED
      BY <3>2, <3>3
  <2> QED
    BY <2>1, <2>2 DEF Remembered
<1> QED
  BY <1>2, <1>3

(* Update takes the socket that its completion found connected.            *)
LEMMA UpdateAftercare ==
  ASSUME TypeOK, OneCompletion, Greeted, Remembered, NEW w \in Workers,
         AcceptLoad(w) \/ AcceptPop(w) \/ AcceptRearm(w)
  PROVE  Greeted' /\ Remembered'
<1> USE KeyPlace DEF TypeOK, ConnectTypeOK, At, Goto, sessionVars, workerVars,
                     countVars
<1>1. /\ UNCHANGED <<mySocket, port>>
      /\ \A v \in Workers : Cleaning(v) => Cleaning(v)'
  BY DEF AcceptLoad, AcceptPop, AcceptRearm, Cleaning
<1>2. \A s \in Sockets : endpoint[s] \in {"connected", "closing"} =>
        endpoint'[s] = endpoint[s]
  BY DEF AcceptLoad, UpdateLoad, AcceptPop, UpdatePop, AcceptRearm,
         UpdateAccept, Accept, Acceptable
<1>3. connectWorker' # "done"
  BY DEF AcceptLoad, UpdateLoad, AcceptPop, UpdatePop, AcceptRearm,
         UpdateAccept, Accept, OneCompletion
<1>4. \A v \in Workers : hand'[v] # NULL =>
        hand'[v] \in Sockets /\ endpoint[hand'[v]] = "connected"
  <2>1. CASE AcceptLoad(w)
    BY <2>1 DEF AcceptLoad, UpdateLoad, OneCompletion, Greeted, Connected
  <2>2. CASE AcceptPop(w) \/ AcceptRearm(w)
    BY <2>2 DEF AcceptPop, UpdatePop, AcceptRearm, UpdateAccept, Greeted,
                Connected
  <2> QED
    BY <2>1, <2>2
<1>5. \A v \in Workers : Connected(hand[v])'
  BY <1>2, <1>4 DEF Connected
<1>6. \A p \in Places \ {Key} : Connected(mySocket[p])'
  BY <1>1, <1>2 DEF Greeted, Connected
<1>7. Remembered'
  <2> SUFFICES ASSUME mySocket[Key] # NULL, ~ Live(mySocket[Key])'
               PROVE  ~ NoneEnding' \/ \E v \in Workers : Cleaning(v)'
    BY <1>1 DEF Remembered
  <2>1. ~ Live(mySocket[Key])
    BY <1>1, <1>2 DEF Live
  <2> QED
    BY <1>1, <2>1 DEF Remembered, NoneEnding, Ending
<1> QED
  BY <1>3, <1>5, <1>6, <1>7 DEF Greeted

(* Ready gives a session a socket that is connected.                       *)
LEMMA ReadyAftercare ==
  ASSUME TypeOK, Greeted, Remembered, NEW w \in Workers, Ready(w)
  PROVE  Greeted' /\ Remembered'
<1> USE KeyPlace DEF TypeOK, ConnectTypeOK, At, Goto, LetGo
<1>1. /\ UNCHANGED <<connectNewbie, connectWorker, endpoint, port>>
      /\ hand' = [hand EXCEPT ![w] = NULL]
      /\ mySocket' = [mySocket EXCEPT ![spot[w]] = hand[w]]
      /\ \A v \in Workers : Cleaning(v) => Cleaning(v)'
  BY DEF Ready, Cleaning
<1>2. Greeted'
  BY <1>1 DEF Greeted, Connected
<1>3. Remembered'
  <2> SUFFICES ASSUME mySocket'[Key] # NULL, ~ Live(mySocket[Key])'
               PROVE  ~ NoneEnding' \/ \E v \in Workers : Cleaning(v)'
    BY DEF Remembered
  <2>1. mySocket'[Key] = mySocket[Key] /\ ~ Live(mySocket[Key])
    BY <1>1 DEF Greeted, Connected, Live
  <2> QED
    BY <1>1, <2>1 DEF Remembered, NoneEnding, Ending
<1> QED
  BY <1>2, <1>3

(* Who disconnects a socket is told when it is done.                       *)
LEMMA DisconnectsAftercare ==
  ASSUME TypeOK, ~ Faults, Greeted, NEW s \in Sockets, Disconnects(s)
  PROVE  Greeted' /\ Remembered'
<1>1. /\ UNCHANGED <<connectNewbie, connectWorker, hand, mySocket>>
      /\ endpoint[s] = "closing" /\ Post(Done("DISPOSE", TRUE))
      /\ endpoint' = [endpoint EXCEPT ![s] = Disconnected]
  BY DEF Disconnects, sessionVars
<1>2. Greeted'
  BY <1>1 DEF TypeOK, ConnectTypeOK, Greeted, Connected
<1>3. \E i \in Nat : Ending(i)'
  <2> DEFINE i == Len(port) + 1
  <2>1. Done("DISPOSE", TRUE) \in Completions /\ port \in Seq(Completions)
    BY MaxUsersNat DEF TypeOK, Done, Completions, Operations, Places
  <2>2. i \in 1..Len(port') /\ port'[i] = Done("DISPOSE", TRUE)
    BY <1>1, <2>1, AfterPost
  <2>3. i \in Nat
    BY <2>1
  <2> HIDE DEF i
  <2> QED
    BY <2>2, <2>3 DEF Ending, Done
<1> QED
  BY <1>2, <1>3 DEF Remembered, NoneEnding

(* A connection is made on the socket being accepted on.                   *)
LEMMA ConnectAftercare ==
  ASSUME TypeOK, Greeted, Remembered, ClientConnects
  PROVE  Greeted' /\ Remembered'
<1> USE KeyPlace DEF TypeOK, ConnectTypeOK
<1>1. UNCHANGED <<connectNewbie, hand, mySocket, pc>>
  BY DEF ClientConnects, ClientArrives, sessionVars, workerVars, countVars
<1>2. \A s \in Sockets : Connected(s) => Connected(s)'
  BY ConnectMoves DEF Connected
<1>3. Connected(connectNewbie)'
  BY <1>1, ConnectMoves DEF Connected
<1>4. \A v \in Workers : Connected(hand[v])'
  BY <1>1, <1>2 DEF Greeted, Connected
<1>5. \A p \in Places \ {Key} : Connected(mySocket[p])'
  BY <1>1, <1>2 DEF Greeted, Connected
<1>6. Remembered'
  <2> SUFFICES ASSUME mySocket[Key] # NULL, ~ Live(mySocket[Key])'
               PROVE  ~ NoneEnding' \/ \E v \in Workers : Cleaning(v)'
    BY <1>1 DEF Remembered
  <2>1. ~ Live(mySocket[Key])
    BY <1>1, ConnectMoves DEF Live
  <2>2. Done("ACCEPT", TRUE) \in Completions /\ Post(Done("ACCEPT", TRUE))
    BY MaxUsersNat DEF Done, Completions, Operations, Places, ClientConnects
  <2>3. ~ NoneEnding => ~ NoneEnding'
    BY <2>2, AfterPost DEF NoneEnding, Ending
  <2> QED
    BY <1>1, <2>1, <2>3 DEF Remembered, Cleaning
<1> QED
  BY <1>3, <1>4, <1>5, <1>6 DEF Greeted

LEMMA AftercareStep ==
  /\ TypeOK /\ OneCompletion /\ Owned /\ Placed /\ NoFault /\ Aftercare
  /\ [Next]_vars
  => Aftercare'
<1> SUFFICES ASSUME TypeOK, OneCompletion, Owned, Placed, NoFault, [Next]_vars,
                    ~ Reusable, ~ Faults, Greeted, Remembered
             PROVE  Greeted' /\ Remembered'
  BY DEF Aftercare
<1>1. ASSUME LetsGo, Follows PROVE Greeted' /\ Remembered'
  BY <1>1, FollowsStep DEF Owned
<1>2. ASSUME NEW w \in Workers, WorkerStep(w) PROVE Greeted' /\ Remembered'
  <2>1. CASE Dequeue(w)
    BY <2>1, DequeueAftercare
  <2>2. CASE Throw(w) \/ SignInThrows(w)
    BY <2>2 DEF Throw, SignInThrows, At, NoFault
  <2>3. CASE AcceptLoad(w) \/ AcceptPop(w) \/ AcceptRearm(w)
    BY <2>3, UpdateAftercare
  <2>4. CASE Ready(w)
    BY <2>4, ReadyAftercare
  <2>5. CASE \/ Admit(w) \/ Refuse(w) \/ SeekRead(w) \/ SeekNewbiePlace(w)
             \/ NoPlace(w)
             \/ Claim(w) \/ StoreUsers(w) \/ BeginRecv(w)
    BY <1>1, <2>5, AcceptLetsGo, AcceptFollows DEF Owned
  <2>6. CASE RecvStep(w)
    BY <1>1, <2>6, RecvLetsGo, RecvFollows
  <2>7. CASE DisposeStep(w)
    BY <1>1, <2>7, DisposeLetsGo, DisposeFollows
  <2> QED
    BY <1>2, <2>1, <2>2, <2>3, <2>4, <2>5, <2>6, <2>7
       DEF WorkerStep, AcceptStep
<1>3. ASSUME NEW s \in Sockets, Disconnects(s) PROVE Greeted' /\ Remembered'
  BY <1>3, DisconnectsAftercare
<1>4. CASE ClientConnects
  BY <1>4, ConnectAftercare
<1>5. CASE \/ \E s \in Sockets : Deliver(s) \/ AbortRecv(s)
           \/ ClientStep /\ ~ ClientConnects
           \/ UNCHANGED vars
  <2>1. ~ AcceptFails
    BY DEF AcceptFails
  <2> QED
    BY <1>1, <1>5, <2>1, NetFollows
<1> QED
  BY <1>2, <1>3, <1>4, <1>5 DEF Next, KernelStep

LEMMA InitAftercare == Init => Placed /\ NoFault /\ Aftercare
<1> SUFFICES ASSUME Init PROVE Placed /\ NoFault /\ Aftercare
  OBVIOUS
<1>1. port = <<>> /\ \A i \in Nat : ~ (i \in 1..Len(port))
  BY DEF Init
<1>2. NoFault
  BY <1>1 DEF Init, NoFault
<1>3. /\ connectWorker = "pending"
      /\ \A w \in Workers : hand[w] = NULL
      /\ \A p \in Places : mySocket[p] = NULL
  BY DEF Init, ConnectInit
<1>4. Greeted /\ Remembered
  BY <1>3, KeyPlace DEF Greeted, Connected, Remembered
<1>5. Placed
  BY DEF Init, Placed, Key
<1> QED
  BY <1>2, <1>4, <1>5 DEF Aftercare

(* Where sockets serve one connection and no call of the kernel fails, no  *)
(* session is forgotten whose connection has ended: the completion of its  *)
(* disconnection waits, or a worker is on its way to Cleanup, whatever the *)
(* other connections and workers did meanwhile.                            *)
THEOREM FrameworkNoneForgotten == Spec => []NoneForgotten
<1>1. TypeOK /\ Placed /\ NoFault /\ Aftercare => NoneForgotten
  <2> SUFFICES ASSUME TypeOK, Placed, NoFault, Greeted, Remembered, ~ Faults,
                      NEW p \in Places, mySocket[p] # NULL,
                      endpoint[mySocket[p]] \notin {"connected", "closing"}
               PROVE  \/ \E i \in 1..Len(port) :
                           port[i].op = "DISPOSE" /\ port[i].ok
                      \/ \E w \in Workers :
                           /\ pc[w] \in {"giveback", "cleaning", "clean"}
                           /\ spot[w] = p
    BY DEF Aftercare, NoneForgotten
  <2>1. p = Key
    BY DEF Greeted, Connected
  <2>2. ~ NoneEnding \/ \E w \in Workers : Cleaning(w)
    BY <2>1 DEF Remembered, Live
  <2>3. CASE ~ NoneEnding
    <3>1. PICK i \in Nat : Ending(i)
      BY <2>3 DEF NoneEnding
    <3> QED
      BY <3>1 DEF Ending, NoFault
  <2>4. CASE \E w \in Workers : Cleaning(w)
    BY <2>1, <2>4 DEF Cleaning, Placed, Departed
  <2> QED
    BY <2>2, <2>3, <2>4
<1> QED
  BY <1>1, InitAftercare, PlacedStep, NoFaultStep, AftercareStep, InitOwned,
     OwnedStep, InitOneCompletion, OneCompletionStep, FrameworkTyping,
     PTL DEF Spec
===============================================================================
