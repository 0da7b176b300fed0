------------------------------ MODULE SocketCycle ------------------------------
(***************************************************************************)
(* The acceptor with a caller that keeps its side: a socket Update returns *)
(* is kept by a free session, refused or dropped, and a session whose      *)
(* socket is disconnected gives it back once -- or a NULL is pushed, which *)
(* the program does too (Framework.cpp:406).  As in ProceedDispose, the    *)
(* socket is in the pool before the session lets go of it, and may be      *)
(* accepted on and handed to another session in between.                   *)
(***************************************************************************)
EXTENDS ConnectService

CONSTANTS Places,    (* the sessions                                       *)
          MaxPool    (* how long NULLs may make the pool                   *)

ASSUME CycleAssumption == MaxPool \in Nat

VARIABLES
  mySocket,   (* the socket of each session                                *)
  leaving     (* sessions that gave their socket back and still name it    *)

cycleVars == <<mySocket, leaving>>
vars      == <<connectVars, cycleVars>>

Init == /\ ConnectInit
        /\ mySocket = [p \in Places |-> NULL]
        /\ leaving = {}

Returned(w) == call[w] = "none" /\ hand[w] # NULL

(* A worker takes the completion of AcceptEx from the port.                *)
Dispatch(w) ==
  /\ connectWorker = "done"
  /\ ~ Returned(w)
  /\ UpdateLoad(w)
  /\ UNCHANGED cycleVars

Pop(w) == UpdatePop(w) /\ UNCHANGED cycleVars

Rearm(w) == UpdateAccept(w) /\ UNCHANGED cycleVars

Connect == ClientArrives /\ UNCHANGED cycleVars

(* AcceptPlayer found a place: Session::Ready stores the socket.           *)
Keep(w, p) ==
  /\ Returned(w)
  /\ mySocket[p] = NULL
  /\ mySocket' = [mySocket EXCEPT ![p] = hand[w]]
  /\ LetGo(w)
  /\ UNCHANGED <<socketsPool, connectNewbie, connectWorker, endpoint, call,
                 leaving>>

(* AcceptPlayer found no place and forgets the socket.                     *)
Drop(w) ==
  /\ Returned(w)
  /\ LetGo(w)
  /\ UNCHANGED <<socketsPool, connectNewbie, connectWorker, endpoint, call,
                 cycleVars>>

(* Mutant: the socket is given back still connected.                       *)
RefuseConnected(w) ==
  /\ Returned(w)
  /\ Push(hand[w])
  /\ LetGo(w)
  /\ UNCHANGED <<connectNewbie, connectWorker, endpoint, call, cycleVars>>

(* The server is full: disconnect and give the socket back.                *)
Refuse(w) ==
  /\ Returned(w)
  /\ endpoint' = [endpoint EXCEPT ![hand[w]] = Disconnected]
  /\ Push(hand[w])
  /\ LetGo(w)
  /\ UNCHANGED <<connectNewbie, connectWorker, call, cycleVars>>

(* A session with a socket that it has not given back.                     *)
Holding(p) == mySocket[p] # NULL /\ p \notin leaving

(* DisconnectEx of a session is completed.                                 *)
Disconnect(p) ==
  /\ Holding(p) /\ endpoint[mySocket[p]] = "connected"
  /\ endpoint' = [endpoint EXCEPT ![mySocket[p]] = Disconnected]
  /\ UNCHANGED <<socketsPool, connectNewbie, connectWorker, call, hand,
                 cycleVars>>

(* Mutant: the disconnection of a session is handled again before its      *)
(* Cleanup.                                                                *)
ReturnAgain(p) ==
  /\ mySocket[p] # NULL /\ endpoint[mySocket[p]] = Disconnected
  /\ Len(socketsPool) < Cardinality(Sockets) + MaxPool
  /\ Push(mySocket[p])
  /\ leaving' = leaving \cup {p}
  /\ UNCHANGED <<connectNewbie, connectWorker, endpoint, call, hand, mySocket>>

(* ProceedDispose pushes what the session names.                           *)
Return(p) ==
  /\ Holding(p) /\ endpoint[mySocket[p]] = Disconnected
  /\ Push(mySocket[p])
  /\ leaving' = leaving \cup {p}
  /\ UNCHANGED <<connectNewbie, connectWorker, endpoint, call, hand, mySocket>>

(* Mutant: Cleanup leaves the session its socket.                          *)
CleanupStateOnly(p) ==
  /\ p \in leaving
  /\ leaving' = leaving \ {p}
  /\ UNCHANGED <<connectVars, mySocket>>

(* Mutant: Cleanup forgets the socket and leaves the session disposed of.  *)
CleanupSocketOnly(p) ==
  /\ p \in leaving
  /\ mySocket' = [mySocket EXCEPT ![p] = NULL]
  /\ UNCHANGED <<connectVars, leaving>>

(* Cleanup, with the lock of the session: the session is free.             *)
Cleanup(p) ==
  /\ p \in leaving
  /\ mySocket' = [mySocket EXCEPT ![p] = NULL]
  /\ leaving' = leaving \ {p}
  /\ UNCHANGED connectVars

ReturnNull ==
  /\ Len(socketsPool) < MaxPool
  /\ Push(NULL)
  /\ UNCHANGED <<connectNewbie, connectWorker, endpoint, call, hand, cycleVars>>

WorkerStep(w) ==
  \/ Dispatch(w) \/ Pop(w) \/ Rearm(w) \/ Drop(w) \/ Refuse(w)
  \/ \E p \in Places : Keep(w, p)

Next ==
  \/ \E w \in Workers : WorkerStep(w)
  \/ \E p \in Places : Disconnect(p) \/ Return(p) \/ Cleanup(p)
  \/ Connect
  \/ ReturnNull

Spec == Init /\ [][Next]_vars

(* Threads run.  Clients need not come, and sessions need not end.         *)
FairSpec == Spec /\ \A w \in Workers : WF_vars(WorkerStep(w))

-------------------------------------------------------------------------------

TypeOK == /\ ConnectTypeOK
          /\ mySocket \in [Places -> Sockets \cup {NULL}]
          /\ leaving \subseteq {p \in Places : mySocket[p] # NULL}

InPool(s)   == \E i \in 1..Len(socketsPool) : socketsPool[i] = s
Accepting   == \A w \in Workers : call[w] # "pop"
IsNewbie(s) == connectNewbie = s /\ Accepting
InHand(s)   == \E w \in Workers : hand[w] = s
Kept(s)     == \E p \in Places : Holding(p) /\ mySocket[p] = s

(* No socket of the pool is queued twice: two accepts would share it       *)
(* (Push and Pop under socketPoolLock).                                    *)
PoolDistinct ==
  \A i, j \in 1..Len(socketsPool) :
    socketsPool[i] = socketsPool[j] /\ socketsPool[i] # NULL => i = j

(* A socket is in one place at a time: the pool, the accept, one worker's  *)
(* hand or one session (Update passes it from one to the next).  A session *)
(* that has given it back still names it until its Cleanup (ProceedDispose *)
(* pushes first), so such sessions do not count: the socket may well be    *)
(* another session's by then.                                              *)
OnePlace ==
  /\ \A s \in Sockets :
       /\ InPool(s)   => ~ IsNewbie(s) /\ ~ InHand(s) /\ ~ Kept(s)
       /\ IsNewbie(s) => ~ InHand(s) /\ ~ Kept(s)
       /\ InHand(s)   => ~ Kept(s)
  /\ \A v, w \in Workers : hand[v] = hand[w] /\ hand[v] # NULL => v = w
  /\ \A p, q \in Places :
       Holding(p) /\ Holding(q) /\ mySocket[p] = mySocket[q] => p = q

(* The kernel's view agrees with the program's: AcceptEx is pending on     *)
(* connectNewbie, which is connected when it is reported, and nothing in   *)
(* the pool is connected or being accepted on (Accept, Update).            *)
EndpointsAgree ==
  /\ connectWorker = "pending" => /\ connectNewbie \in Sockets
                                  /\ endpoint[connectNewbie] = "accepting"
  /\ connectWorker = "done" => /\ connectNewbie \in Sockets
                               /\ endpoint[connectNewbie] = "connected"
  /\ \A s \in Sockets : InPool(s) => endpoint[s] \in {"fresh", "closed"}
  /\ \A s \in Sockets : InHand(s) => endpoint[s] = "connected"

(* When a socket that can be accepted on is next in the pool, handling a   *)
(* connection leads to the next AcceptEx: no other worker takes that       *)
(* socket in between (Update, "accept the next connection").               *)
NextAcceptArmed ==
  (connectWorker = "done" /\ Acceptable(Popped)) ~> (connectWorker = "pending")

-------------------------------------------------------------------------------

(* The refinement of SocketPool.                                           *)
RoleOf == [s \in Sockets |->
             IF IsNewbie(s) THEN "newbie"
             ELSE IF InPool(s) THEN "free"
             ELSE "out"]

Pool == INSTANCE SocketPool WITH role <- RoleOf

(* Every step of the acceptor moves one socket one place on, in the order  *)
(* free, accepted on, out, or moves none.                                  *)
ImplementsPool == Pool!PoolSpec
===============================================================================
