------------------------------- MODULE Framework -------------------------------
(***************************************************************************)
(* The server (Framework.cpp, Session.hpp): worker threads take            *)
(* completions from one port and run the handler of each -- a connection   *)
(* accepted, data received, a receive failed, a disconnection done --      *)
(* against sessions protected by a spin lock that does not know its owner. *)
(*                                                                         *)
(* One step is the part of a handler between two points where another      *)
(* thread can be seen.  The kernel and the clients are external; a receive *)
(* delivers one whole packet (Receiver looks inside packets).  Completions *)
(* of sends and of PostDatabaseJob change nothing modelled here.           *)
(***************************************************************************)
EXTENDS ConnectService

CONSTANTS UserSpan,       (* 2^32: numberUsers is an unsigned              *)
          ClientPackets,  (* the kinds of packets clients send             *)
          Partings,       (* how clients leave: "fin", "rst"               *)
          Faults,         (* may AcceptEx, DisconnectEx, SQLPrepare fail?  *)
          MaxPackets,     (* bound: packets of one connection              *)
          MaxConnections  (* bound: connections in all                     *)

MaxUsers == Cardinality(Sockets)
Places   == 0..MaxUsers - 1
Offsets  == 0..MaxConnections * MaxPackets
Blank    == [kind |-> "NONE", from |-> NULL]       (* a packet of zeros     *)
Nothing  == [kind |-> "NOTHING", from |-> NULL]    (* no packet             *)
Kinds    == {"CS_SIGNIN", "CS_DISPOSE", "CS_REQUEST_VERSION", "CS_CHAT"}

ASSUME FrameworkAssumption ==
  /\ UserSpan \in Nat /\ UserSpan > MaxUsers
  /\ ClientPackets \subseteq Kinds
  /\ Partings \subseteq {"fin", "rst"}
  /\ Faults \in BOOLEAN
  /\ MaxPackets \in Nat /\ MaxConnections \in Nat

VARIABLES
  (* Framework *)
  numberUsers,
  (* sessions, by place *)
  myState, mySocket, locked,
  myLastPacket,   (* the packet last assembled, or Blank                   *)
  myRecvSize,     (* what was received and not yet assembled, in packets   *)
  myData,         (* the buffer of the receiver: at each offset, a packet  *)
  buf, sized,     (* its WSABUF: the offset, and is the length not 0?      *)
  (* workers *)
  pc,
  job,            (* the completion being handled                          *)
  spot,           (* the place of the session it works on                  *)
  seen,           (* what its find_if read in each place so far            *)
  users,          (* the local users_number of AcceptPlayer                *)
  got,            (* what Swallow returned                                 *)
  (* the kernel and the clients *)
  port,           (* completions, first in first out                       *)
  recvq,          (* receives outstanding on each socket                   *)
  inbox, link, sent, connections,
  replies,        (* history: who asked and who was answered               *)
  overtaken       (* history: did numberUsers change while another worker  *)
                  (* had loaded it and not yet stored it?                  *)

countVars    == <<numberUsers, overtaken>>
receiverVars == <<myRecvSize, myData, buf, sized>>
sessionVars  == <<myState, mySocket, locked, myLastPacket, receiverVars>>
workerVars   == <<pc, job, spot, seen, users, got>>
netVars      == <<recvq, inbox, link, sent, connections>>
vars == <<connectVars, countVars, sessionVars, workerVars,
          port, netVars, replies>>

Packets     == [kind : Kinds, from : Sockets]
Operations  == {"ACCEPT", "RECV", "DISPOSE"}
(* `receiver` is the session whose OVERLAPPED a receive was given.         *)
Completions == [op : Operations, ok : BOOLEAN, data : BOOLEAN,
                receiver : Places]
Receives    == [place : Places, probe : BOOLEAN, at : Nat]
HoldingSteps == {"ready", "rearm", "handle", "unlock", "forget", "drop",
                 "clean"}
Steps == HoldingSteps \cup
  {"port", "update", "updating", "check", "seek", "claim", "store", "begin",
   "swallow", "assembled", "request", "restore", "dropping", "giveback",
   "cleaning", "uncount", "throw", "gone"}

TypeOK ==
  /\ ConnectTypeOK
  /\ numberUsers  \in 0..UserSpan - 1
  /\ myState      \in [Places -> {"NONE", "ACCEPTED"}]
  /\ mySocket     \in [Places -> Sockets \cup {NULL}]
  /\ locked       \in [Places -> BOOLEAN]
  /\ myLastPacket \in [Places -> Packets \cup {Blank}]
  /\ myRecvSize   \in [Places -> Nat]
  /\ myData       \in [Places -> [Offsets -> Packets \cup {Blank}]]
  /\ buf          \in [Places -> Nat]
  /\ sized        \in [Places -> BOOLEAN]
  /\ pc           \in [Workers -> Steps]
  /\ job          \in [Workers -> Completions]
  /\ spot         \in [Workers -> Places]
  /\ seen         \in [Workers -> [Places -> {"unread", "free", "taken"}]]
  /\ users        \in [Workers -> 0..UserSpan - 1]
  /\ got          \in [Workers -> Packets \cup {Blank, Nothing}]
  /\ port         \in Seq(Completions)
  /\ recvq        \in [Sockets -> Seq(Receives)]
  /\ inbox        \in [Sockets -> Seq(Packets)]
  /\ link         \in [Sockets -> {"up", "fin", "rst"}]
  /\ sent         \in [Sockets -> Nat]
  /\ connections  \in Nat
  /\ replies      \subseteq Sockets \X (Sockets \cup {NULL})
  /\ overtaken    \in BOOLEAN

(* Awake links every socket of the pool with the same key, USERS_ID_BEGIN. *)
Key == 0

Done(op, ok) == [op |-> op, ok |-> ok, data |-> FALSE, receiver |-> 0]

Received(r, ok, data) ==
  [op |-> "RECV", ok |-> ok, data |-> data, receiver |-> r.place]

Unread == [p \in Places |-> "unread"]

Init ==
  /\ ConnectInit
  /\ numberUsers  = 0
  /\ myState      = [p \in Places |-> "NONE"]
  /\ mySocket     = [p \in Places |-> NULL]
  /\ locked       = [p \in Places |-> FALSE]
  /\ myLastPacket = [p \in Places |-> Blank]
  /\ myRecvSize   = [p \in Places |-> 0]
  /\ myData       = [p \in Places |-> [i \in Offsets |-> Blank]]
  /\ buf          = [p \in Places |-> 0]
  /\ sized        = [p \in Places |-> FALSE]
  /\ pc           = [w \in Workers |-> "port"]
  /\ job          = [w \in Workers |-> Done("ACCEPT", TRUE)]
  /\ spot         = [w \in Workers |-> 0]
  /\ seen         = [w \in Workers |-> Unread]
  /\ users        = [w \in Workers |-> 0]
  /\ got          = [w \in Workers |-> Nothing]
  /\ port         = <<>>
  /\ recvq        = [s \in Sockets |-> <<>>]
  /\ inbox        = [s \in Sockets |-> <<>>]
  /\ link         = [s \in Sockets |-> "up"]
  /\ sent         = [s \in Sockets |-> 0]
  /\ connections  = 0
  /\ replies      = {}
  /\ overtaken    = FALSE

-------------------------------------------------------------------------------
(* Pieces the handlers share.                                              *)

At(w, step)   == pc[w] = step
Goto(w, step) == pc' = [pc EXCEPT ![w] = step]
Post(c)       == port' = Append(port, c)

(* Session::Acquire and Release: a bare test-and-set flag.                 *)
Acquire(p) == ~ locked[p] /\ locked' = [locked EXCEPT ![p] = TRUE]
Release(p) == locked' = [locked EXCEPT ![p] = FALSE]

(* How WSARecv on the socket of p ends: completed at once, pending, or in  *)
(* an error.                                                               *)
RecvResult(p) ==
  LET s == mySocket[p] IN
  IF s = NULL THEN "error"
  ELSE IF endpoint[s] # "connected" \/ link[s] = "rst" THEN "error"
  ELSE IF recvq[s] = <<>> /\ (inbox[s] # <<>> \/ link[s] = "fin") THEN "done"
  ELSE "pending"

(* The receive r on s completes: with the next packet, which it puts in    *)
(* the buffer it was given, or with zero bytes (a probe, or the end).      *)
CompleteRecv(s, r) ==
  LET data == ~ r.probe /\ inbox[s] # <<>> IN
  /\ Post(Received(r, TRUE, data))
  /\ inbox'  = IF data THEN [inbox EXCEPT ![s] = Tail(@)] ELSE inbox
  /\ myData' = IF data THEN [myData EXCEPT ![r.place][r.at] = Head(inbox[s])]
                       ELSE myData

(* Session::Recv and BeginRecv, given the buffer at an offset.             *)
Recv(p, probe, at) ==
  LET r == [place |-> p, probe |-> probe, at |-> at] IN
  \/ /\ RecvResult(p) = "done"
     /\ CompleteRecv(mySocket[p], r)
     /\ UNCHANGED recvq
  \/ /\ RecvResult(p) = "pending"
     /\ recvq' = [recvq EXCEPT ![mySocket[p]] = Append(@, r)]
     /\ UNCHANGED <<port, inbox, myData>>
  \/ /\ RecvResult(p) = "error"
     /\ UNCHANGED <<recvq, port, inbox, myData>>

(* Session::BeginDisconnect: start an overlapped DisconnectEx, which fails *)
(* on a socket not connected, and clear the last packet.                   *)
BeginDisconnect(p) ==
  IF myState[p] # "NONE"
  THEN /\ endpoint' = [s \in Sockets |->
                         IF s = mySocket[p] /\ endpoint[s] = "connected"
                         THEN "closing" ELSE endpoint[s]]
       /\ myLastPacket' = [myLastPacket EXCEPT ![p] = Blank]
  ELSE UNCHANGED <<endpoint, myLastPacket>>

(* DisconnectEx without OVERLAPPED returns when the socket is closed.  Its *)
(* failure is printed, or not even looked at, and the caller goes on.      *)
DisconnectNow(s) ==
  \/ endpoint' = [t \in Sockets |->
                    IF t = s /\ endpoint[t] = "connected" THEN Disconnected
                                                         ELSE endpoint[t]]
  \/ Faults /\ UNCHANGED endpoint

(* Session::Cleanup.                                                       *)
Cleanup(p) ==
  /\ myState'    = [myState EXCEPT ![p] = "NONE"]
  /\ mySocket'   = [mySocket EXCEPT ![p] = NULL]
  /\ myRecvSize' = [myRecvSize EXCEPT ![p] = 0]
  /\ myData'     = [myData EXCEPT ![p] = [i \in Offsets |-> Blank]]
  /\ sized'      = [sized EXCEPT ![p] = FALSE]
  /\ UNCHANGED buf

-------------------------------------------------------------------------------
(* Mutant: a failed receive is ignored.                                    *)
RouteIgnoring(c) ==
  [ACCEPT  |-> IF c.ok THEN "update" ELSE "throw",
   RECV    |-> IF c.ok THEN "swallow" ELSE "port",
   DISPOSE |-> IF c.ok THEN "giveback" ELSE "port"][c.op]

(* Mutant: a failed receive is handled as a disconnection that is done.    *)
RouteDisposing(c) ==
  [ACCEPT  |-> IF c.ok THEN "update" ELSE "throw",
   RECV    |-> IF c.ok THEN "swallow" ELSE "giveback",
   DISPOSE |-> IF c.ok THEN "giveback" ELSE "port"][c.op]

(* Worker, RouteSucceed and RouteFailed: dequeue a completion and go to    *)
(* its handler, with the session the key names.                            *)
Route(c) ==
  [ACCEPT  |-> IF c.ok THEN "update" ELSE "throw",
   RECV    |-> IF c.ok THEN "swallow" ELSE "dropping",
   DISPOSE |-> IF c.ok THEN "giveback" ELSE "port"][c.op]

Dequeue(w) ==
  /\ At(w, "port") /\ port # <<>>
  /\ job'  = [job EXCEPT ![w] = Head(port)]
  /\ port' = Tail(port)
  /\ spot' = [spot EXCEPT ![w] = Key]
  /\ Goto(w, Route(Head(port)))
  /\ UNCHANGED <<connectVars, countVars, sessionVars, seen, users, got,
                 netVars, replies>>

(* Nothing catches what a handler throws, which ends every thread of the   *)
(* program.                                                                *)
Terminate ==
  /\ pc'   = [v \in Workers |-> "gone"]
  /\ call' = [v \in Workers |-> "none"]
  /\ UNCHANGED <<socketsPool, connectNewbie, connectWorker, endpoint, hand,
                 countVars, sessionVars, job, seen, spot, users, got, port,
                 netVars, replies>>

(* A failed ACCEPT carries SERVER_ID: GetSession throws out_of_range.      *)
Throw(w) == At(w, "throw") /\ Terminate

-------------------------------------------------------------------------------
(* ProceedAccept and AcceptPlayer.                                         *)

AcceptLoad(w) ==
  /\ At(w, "update")
  /\ UpdateLoad(w)
  /\ Goto(w, "updating")
  /\ UNCHANGED <<countVars, sessionVars, job, seen, spot, users, got, port,
                 netVars, replies>>

AcceptPop(w) ==
  /\ At(w, "updating")
  /\ UpdatePop(w)
  /\ UNCHANGED <<countVars, sessionVars, workerVars, port, netVars, replies>>

AcceptRearm(w) ==
  /\ At(w, "updating")
  /\ UpdateAccept(w)
  /\ Goto(w, "check")
  /\ UNCHANGED <<countVars, sessionVars, job, seen, spot, users, got, port,
                 netVars, replies>>

CanAcceptPlayer == numberUsers < MaxUsers

Admit(w) ==
  /\ At(w, "check") /\ CanAcceptPlayer
  /\ Goto(w, "seek")
  /\ UNCHANGED <<connectVars, countVars, sessionVars, job, seen, spot, users,
                 got, port, netVars, replies>>

Refuse(w) ==
  /\ At(w, "check") /\ ~ CanAcceptPlayer
  /\ DisconnectNow(hand[w])
  /\ Push(hand[w])
  /\ LetGo(w)
  /\ Goto(w, "port")
  /\ UNCHANGED <<connectNewbie, connectWorker, call, countVars, sessionVars,
                 job, seen, spot, users, got, port, netVars, replies>>

(* SeekNewbiePlace reads the states without a lock, each at a time of its  *)
(* own and in any order, ...                                               *)
SeekRead(w) ==
  /\ At(w, "seek")
  /\ \E p \in Places :
       /\ seen[w][p] = "unread"
       /\ \A q \in Places : q < p => seen[w][q] # "free"
       /\ seen' = [seen EXCEPT ![w][p] =
                     IF myState[p] = "NONE" THEN "free" ELSE "taken"]
  /\ UNCHANGED <<connectVars, countVars, sessionVars, pc, job, spot, users,
                 got, port, netVars, replies>>

(* ... and returns the first place it saw free, whatever it is by then.    *)
SeekNewbiePlace(w) ==
  /\ At(w, "seek")
  /\ \E p \in Places :
       /\ seen[w][p] = "free"
       /\ \A q \in Places : q < p => seen[w][q] = "taken"
       /\ spot' = [spot EXCEPT ![w] = p]
  /\ seen' = [seen EXCEPT ![w] = Unread]
  /\ Goto(w, "claim")
  /\ UNCHANGED <<connectVars, countVars, sessionVars, job, users, got, port,
                 netVars, replies>>

NoPlace(w) ==
  /\ At(w, "seek")
  /\ \A p \in Places : seen[w][p] = "taken"
  /\ seen' = [seen EXCEPT ![w] = Unread]
  /\ LetGo(w)
  /\ Goto(w, "port")
  /\ UNCHANGED <<socketsPool, connectNewbie, connectWorker, endpoint, call,
                 countVars, sessionVars, job, spot, users, got, port, netVars,
                 replies>>

Claim(w) ==
  /\ At(w, "claim")
  /\ Acquire(spot[w])
  /\ Goto(w, "ready")
  /\ UNCHANGED <<connectVars, countVars, myState, mySocket, myLastPacket,
                 receiverVars, job, seen, spot, users, got, port, netVars,
                 replies>>

(* Session::Ready; then the server status is sent and the lock released,   *)
(* unless the server has filled up, where the lock is kept.                *)
Ready(w) ==
  LET p == spot[w] IN
  /\ At(w, "ready")
  /\ myState'  = [myState EXCEPT ![p] = "ACCEPTED"]
  /\ mySocket' = [mySocket EXCEPT ![p] = hand[w]]
  /\ users'    = [users EXCEPT ![w] = numberUsers]
  /\ LetGo(w)
  /\ IF CanAcceptPlayer THEN Release(p) /\ Goto(w, "store")
                        ELSE UNCHANGED locked /\ Goto(w, "port")
  /\ UNCHANGED <<socketsPool, connectNewbie, connectWorker, endpoint, call,
                 countVars, myLastPacket, receiverVars, job, seen, spot, got,
                 port, netVars, replies>>

(* numberUsers becomes n, under whoever has loaded it and will store it.   *)
Count(w, n) ==
  /\ numberUsers' = n
  /\ overtaken' = (overtaken \/ \E v \in Workers \ {w} : At(v, "store"))

StoreUsers(w) ==
  /\ At(w, "store")
  /\ Count(w, users[w] + 1)
  /\ Goto(w, "begin")
  /\ UNCHANGED <<connectVars, sessionVars, job, seen, spot, users, got, port,
                 netVars, replies>>

BeginRecv(w) ==
  /\ At(w, "begin")
  /\ Recv(spot[w], ~ sized[spot[w]], buf[spot[w]])
  /\ Goto(w, "port")
  /\ UNCHANGED <<connectVars, countVars, myState, mySocket, locked,
                 myLastPacket, myRecvSize, buf, sized, job, seen, spot,
                 users, got, link, sent, connections, replies>>

-------------------------------------------------------------------------------
(* ProceedRecv: Session::Swallow, then the request.                        *)

(* The packet at the start of the WSABUF.                                  *)
Header(p) == IF buf[p] \in Offsets THEN myData[p][buf[p]] ELSE Blank

(* Swallow counts what was received and, if that is enough for a packet,   *)
(* copies the one in the buffer out, without the lock.  A packet of zeros  *)
(* has no length: nothing is copied, and the last packet returned again.   *)
Assemble(w) ==
  LET p    == spot[w]
      size == myRecvSize[p] + (IF job[w].data THEN 1 ELSE 0)
      full == size > 0 /\ Header(p) # Blank
  IN
  /\ At(w, "swallow")
  /\ myRecvSize' = [myRecvSize EXCEPT ![p] = IF full THEN size - 1 ELSE size]
  /\ myLastPacket' = IF full THEN [myLastPacket EXCEPT ![p] = Header(p)]
                             ELSE myLastPacket
  /\ got' = [got EXCEPT ![w] = IF size > 0 THEN myLastPacket'[p] ELSE Nothing]
  /\ Goto(w, "assembled")
  /\ UNCHANGED <<connectVars, countVars, myState, mySocket, locked, myData,
                 buf, sized, job, seen, spot, users, port, netVars, replies>>

SwallowAcquire(w) ==
  /\ At(w, "assembled")
  /\ Acquire(spot[w])
  /\ Goto(w, "rearm")
  /\ UNCHANGED <<connectVars, countVars, myState, mySocket, myLastPacket,
                 receiverVars, job, seen, spot, users, got, port, netVars,
                 replies>>

Swallowed(packet) == IF packet = Nothing THEN "port" ELSE "request"

(* Under the lock: a session that is gone receives no more.                *)
RearmNot(w) ==
  /\ At(w, "rearm") /\ myState[spot[w]] = "NONE"
  /\ Release(spot[w])
  /\ Goto(w, Swallowed(got[w]))
  /\ UNCHANGED <<connectVars, countVars, myState, mySocket, myLastPacket,
                 receiverVars, job, seen, spot, users, got, port, netVars,
                 replies>>

(* Otherwise it receives again.  A result other than immediate success is  *)
(* taken for an error, a pending receive included: the session is          *)
(* disconnected and the packet is forgotten.                               *)
Rearm(w) ==
  LET p == spot[w] IN
  /\ At(w, "rearm") /\ myState[p] # "NONE"
  /\ Recv(p, FALSE, myRecvSize[p])
  /\ buf'   = [buf EXCEPT ![p] = myRecvSize[p]]
  /\ sized' = [sized EXCEPT ![p] = TRUE]
  /\ IF RecvResult(p) = "done"
     THEN /\ Goto(w, Swallowed(got[w]))
          /\ UNCHANGED <<endpoint, myLastPacket, got>>
     ELSE /\ BeginDisconnect(p)
          /\ got' = [got EXCEPT ![w] = Nothing]
          /\ Goto(w, "port")
  /\ Release(p)
  /\ UNCHANGED <<socketsPool, connectNewbie, connectWorker, call, hand,
                 countVars, myState, mySocket, myRecvSize, job, seen, spot,
                 users, link, sent, connections, replies>>

RequestAcquire(w) ==
  /\ At(w, "request")
  /\ Acquire(spot[w])
  /\ Goto(w, "handle")
  /\ UNCHANGED <<connectVars, countVars, myState, mySocket, myLastPacket,
                 receiverVars, job, seen, spot, users, got, port, netVars,
                 replies>>

(* Mutant: a packet cleared meanwhile is handled as any other.             *)
HandlingBlank(w, kinds) ==
  At(w, "handle") /\ myLastPacket[spot[w]].kind \in kinds \cup {"NONE"}

Handling(w, kinds) ==
  /\ At(w, "handle")
  /\ myLastPacket[spot[w]].kind \in kinds

Reply(p) == replies' = replies \cup {<<myLastPacket[p].from, mySocket[p]>>}

(* Mutant: the handler begins the next receive, which Swallow has done.    *)
HandleVersionRecv(w) ==
  /\ Handling(w, {"CS_REQUEST_VERSION"})
  /\ Reply(spot[w])
  /\ Recv(spot[w], FALSE, myRecvSize[spot[w]])
  /\ Release(spot[w])
  /\ Goto(w, "port")
  /\ UNCHANGED <<connectVars, countVars, myState, mySocket, myLastPacket,
                 myRecvSize, buf, sized, job, seen, spot, users, got, link,
                 sent, connections>>

(* CS_REQUEST_VERSION answers and releases.                                *)
HandleVersion(w) ==
  /\ Handling(w, {"CS_REQUEST_VERSION"})
  /\ Reply(spot[w])
  /\ Release(spot[w])
  /\ Goto(w, "port")
  /\ UNCHANGED <<connectVars, countVars, myState, mySocket, myLastPacket,
                 receiverVars, job, seen, spot, users, got, port, netVars>>

(* CS_SIGNIN answers and does not release.                                 *)
HandleSignIn(w) ==
  /\ Handling(w, {"CS_SIGNIN"})
  /\ Reply(spot[w])
  /\ Goto(w, "port")
  /\ UNCHANGED <<connectVars, countVars, sessionVars, job, seen, spot, users,
                 got, port, netVars>>

(* Its query cannot be prepared: CreateQuery throws.                       *)
SignInThrows(w) == Faults /\ Handling(w, {"CS_SIGNIN"}) /\ Terminate

(* The other protocols, and a packet cleared meanwhile, match no case or   *)
(* an empty one: nothing is done and nothing released.                     *)
HandleNothing(w) ==
  /\ Handling(w, {"CS_CHAT", "NONE"})
  /\ Goto(w, "port")
  /\ UNCHANGED <<connectVars, countVars, sessionVars, job, seen, spot, users,
                 got, port, netVars, replies>>

(* CS_DISPOSE of a session that is gone does nothing either ...            *)
HandleDisposeGone(w) ==
  /\ Handling(w, {"CS_DISPOSE"})
  /\ myState[spot[w]] = "NONE"
  /\ Goto(w, "forget")
  /\ UNCHANGED <<connectVars, countVars, sessionVars, job, seen, spot, users,
                 got, port, netVars, replies>>

(* ... but stores the state it had loaded, and does not release.           *)
DisposeForget(w) ==
  /\ At(w, "forget")
  /\ myState' = [myState EXCEPT ![spot[w]] = "NONE"]
  /\ Goto(w, "port")
  /\ UNCHANGED <<connectVars, countVars, mySocket, locked, myLastPacket,
                 receiverVars, job, seen, spot, users, got, port, netVars,
                 replies>>

(* Mutant: the session is not cleaned up.                                  *)
HandleDisposeKeep(w) ==
  LET p == spot[w] IN
  /\ Handling(w, {"CS_DISPOSE"})
  /\ myState[p] = "ACCEPTED"
  /\ DisconnectNow(mySocket[p])
  /\ Push(mySocket[p])
  /\ Goto(w, "unlock")
  /\ UNCHANGED <<connectNewbie, connectWorker, call, hand, countVars,
                 sessionVars, job, seen, spot, users, got, port, netVars,
                 replies>>

(* CS_DISPOSE disconnects and cleans up, and pushes the socket of the      *)
(* session, which is NULL by then.                                         *)
HandleDispose(w) ==
  LET p == spot[w] IN
  /\ Handling(w, {"CS_DISPOSE"})
  /\ myState[p] = "ACCEPTED"
  /\ DisconnectNow(mySocket[p])
  /\ Cleanup(p)
  /\ Push(mySocket'[p])
  /\ Goto(w, "unlock")
  /\ UNCHANGED <<connectNewbie, connectWorker, call, hand, countVars, locked,
                 myLastPacket, job, seen, spot, users, got, port, netVars,
                 replies>>

DisposeRelease(w) ==
  /\ At(w, "unlock")
  /\ Release(spot[w])
  /\ Goto(w, "restore")
  /\ UNCHANGED <<connectVars, countVars, myState, mySocket, myLastPacket,
                 receiverVars, job, seen, spot, users, got, port, netVars,
                 replies>>

(* Mutant: the Release commented out at the end of the handler is back.    *)
DisposeRestoreTwice(w) ==
  /\ At(w, "restore")
  /\ myState' = [myState EXCEPT ![spot[w]] = "ACCEPTED"]
  /\ Release(spot[w])
  /\ Goto(w, "port")
  /\ UNCHANGED <<connectVars, countVars, mySocket, myLastPacket,
                 receiverVars, job, seen, spot, users, got, port, netVars,
                 replies>>

(* Mutant: CS_DISPOSE counts the user out, as ProceedDispose does.         *)
DisposeRestoreUncount(w) ==
  /\ At(w, "restore")
  /\ myState' = [myState EXCEPT ![spot[w]] = "ACCEPTED"]
  /\ Count(w, (numberUsers - 1) % UserSpan)
  /\ Goto(w, "port")
  /\ UNCHANGED <<connectVars, mySocket, locked, myLastPacket, receiverVars,
                 job, seen, spot, users, got, port, netVars, replies>>

(* After the release, it stores the state it had loaded.                   *)
DisposeRestore(w) ==
  /\ At(w, "restore")
  /\ myState' = [myState EXCEPT ![spot[w]] = "ACCEPTED"]
  /\ Goto(w, "port")
  /\ UNCHANGED <<connectVars, countVars, mySocket, locked, myLastPacket,
                 receiverVars, job, seen, spot, users, got, port, netVars,
                 replies>>

-------------------------------------------------------------------------------
(* ProceedBeginDiconnect and BeginDisconnect, then ProceedDispose.         *)

(* Mutant: BeginDisconnect without Acquire.                                *)
DropUnlocked(w) ==
  /\ At(w, "dropping")
  /\ Goto(w, "drop")
  /\ UNCHANGED <<connectVars, countVars, sessionVars, job, seen, spot, users,
                 got, port, netVars, replies>>

(* A failed receive drops the connection, under the lock.                  *)
DropAcquire(w) ==
  /\ At(w, "dropping")
  /\ Acquire(spot[w])
  /\ Goto(w, "drop")
  /\ UNCHANGED <<connectVars, countVars, myState, mySocket, myLastPacket,
                 receiverVars, job, seen, spot, users, got, port, netVars,
                 replies>>

(* Mutant: the worker waits inside the lock for the session to be gone.    *)
DropWaiting(w) ==
  /\ At(w, "drop")
  /\ BeginDisconnect(spot[w])
  /\ IF myState[spot[w]] = "NONE" THEN Release(spot[w]) /\ Goto(w, "port")
                                 ELSE UNCHANGED <<locked, pc>>
  /\ UNCHANGED <<socketsPool, connectNewbie, connectWorker, call, hand,
                 countVars, myState, mySocket, receiverVars, job, seen, spot,
                 users, got, port, netVars, replies>>

Drop(w) ==
  /\ At(w, "drop")
  /\ BeginDisconnect(spot[w])
  /\ Release(spot[w])
  /\ Goto(w, "port")
  /\ UNCHANGED <<socketsPool, connectNewbie, connectWorker, call, hand,
                 countVars, myState, mySocket, receiverVars, job, seen, spot,
                 users, got, port, netVars, replies>>

(* Mutant: the socket given back is taken from the session at once.        *)
DisposeTake(w) ==
  /\ At(w, "giveback")
  /\ Push(mySocket[spot[w]])
  /\ mySocket' = [mySocket EXCEPT ![spot[w]] = NULL]
  /\ Goto(w, "cleaning")
  /\ UNCHANGED <<connectNewbie, connectWorker, endpoint, call, hand,
                 countVars, myState, locked, myLastPacket, receiverVars, job,
                 seen, spot, users, got, port, netVars, replies>>

(* ProceedDispose: the socket goes back before the session is acquired.    *)
DisposeGiveBack(w) ==
  /\ At(w, "giveback")
  /\ Push(mySocket[spot[w]])
  /\ Goto(w, "cleaning")
  /\ UNCHANGED <<connectNewbie, connectWorker, endpoint, call, hand,
                 countVars, sessionVars, job, seen, spot, users, got, port,
                 netVars, replies>>

CleanAcquire(w) ==
  /\ At(w, "cleaning")
  /\ Acquire(spot[w])
  /\ Goto(w, "clean")
  /\ UNCHANGED <<connectVars, countVars, myState, mySocket, myLastPacket,
                 receiverVars, job, seen, spot, users, got, port, netVars,
                 replies>>

Clean(w) ==
  /\ At(w, "clean")
  /\ Cleanup(spot[w])
  /\ Release(spot[w])
  /\ Goto(w, "uncount")
  /\ UNCHANGED <<connectVars, countVars, myLastPacket, job, seen, spot,
                 users, got, port, netVars, replies>>

Uncount(w) ==
  /\ At(w, "uncount")
  /\ Count(w, (numberUsers - 1) % UserSpan)
  /\ Goto(w, "port")
  /\ UNCHANGED <<connectVars, sessionVars, job, seen, spot, users, got, port,
                 netVars, replies>>

-------------------------------------------------------------------------------
(* The kernel and the clients.                                             *)

ClientConnects ==
  /\ connections < MaxConnections
  /\ ClientArrives
  /\ connections' = connections + 1
  /\ inbox' = [inbox EXCEPT ![connectNewbie] = <<>>]
  /\ link'  = [link EXCEPT ![connectNewbie] = "up"]
  /\ sent'  = [sent EXCEPT ![connectNewbie] = 0]
  /\ Post(Done("ACCEPT", TRUE))
  /\ UNCHANGED <<countVars, sessionVars, workerVars, recvq, replies>>

(* The client was gone before AcceptEx completed.                          *)
AcceptFails ==
  /\ Faults /\ connections < MaxConnections
  /\ connectWorker = "pending"
  /\ connectWorker' = "done"
  /\ endpoint' = [endpoint EXCEPT ![connectNewbie] = "closed"]
  /\ Post(Done("ACCEPT", FALSE))
  /\ UNCHANGED <<socketsPool, connectNewbie, call, hand, countVars,
                 sessionVars, workerVars, netVars, replies>>

ClientSends(s, kind) ==
  /\ endpoint[s] = "connected" /\ link[s] = "up"
  /\ sent[s] < MaxPackets
  /\ sent'  = [sent EXCEPT ![s] = @ + 1]
  /\ inbox' = [inbox EXCEPT ![s] = Append(@, [kind |-> kind, from |-> s])]
  /\ UNCHANGED <<connectVars, countVars, sessionVars, workerVars, port,
                 recvq, link, connections, replies>>

(* The client closes, which ends its data, or resets, which loses it.      *)
ClientLeaves(s, how) ==
  /\ endpoint[s] = "connected" /\ link[s] = "up"
  /\ link'  = [link EXCEPT ![s] = how]
  /\ inbox' = IF how = "rst" THEN [inbox EXCEPT ![s] = <<>>] ELSE inbox
  /\ UNCHANGED <<connectVars, countVars, sessionVars, workerVars, port,
                 recvq, sent, connections, replies>>

Deliver(s) ==
  /\ recvq[s] # <<>>
  /\ endpoint[s] = "connected"
  /\ inbox[s] # <<>> \/ link[s] = "fin"
  /\ CompleteRecv(s, Head(recvq[s]))
  /\ recvq' = [recvq EXCEPT ![s] = Tail(@)]
  /\ UNCHANGED <<connectVars, countVars, myState, mySocket, locked,
                 myLastPacket, myRecvSize, buf, sized, workerVars, link,
                 sent, connections, replies>>

(* A receive on a connection reset or disconnected ends without data: it   *)
(* fails, or returns zero bytes if the client closed in answer.            *)
AbortRecv(s) ==
  /\ recvq[s] # <<>>
  /\ link[s] = "rst" \/ endpoint[s] # "connected"
  /\ \E ok \in {FALSE, link[s] # "rst"} :
       Post(Received(Head(recvq[s]), ok, FALSE))
  /\ recvq' = [recvq EXCEPT ![s] = Tail(@)]
  /\ UNCHANGED <<connectVars, countVars, sessionVars, workerVars, inbox,
                 link, sent, connections, replies>>

(* The overlapped DisconnectEx completes, after the receives.              *)
Disconnects(s) ==
  /\ endpoint[s] = "closing" /\ recvq[s] = <<>>
  /\ endpoint' = [endpoint EXCEPT ![s] = Disconnected]
  /\ \E ok \in {TRUE, ~ Faults} : Post(Done("DISPOSE", ok))
  /\ UNCHANGED <<socketsPool, connectNewbie, connectWorker, call, hand,
                 countVars, sessionVars, workerVars, netVars, replies>>

-------------------------------------------------------------------------------
AcceptStep(w) ==
  \/ AcceptLoad(w) \/ AcceptPop(w) \/ AcceptRearm(w) \/ Admit(w) \/ Refuse(w)
  \/ SeekRead(w) \/ SeekNewbiePlace(w) \/ NoPlace(w) \/ Claim(w) \/ Ready(w)
  \/ StoreUsers(w) \/ BeginRecv(w)

RecvStep(w) ==
  \/ Assemble(w) \/ SwallowAcquire(w) \/ RearmNot(w) \/ Rearm(w)
  \/ RequestAcquire(w) \/ HandleVersion(w) \/ HandleSignIn(w)
  \/ HandleNothing(w) \/ HandleDisposeGone(w) \/ DisposeForget(w)
  \/ HandleDispose(w) \/ DisposeRelease(w) \/ DisposeRestore(w)

DisposeStep(w) ==
  \/ DropAcquire(w) \/ Drop(w) \/ DisposeGiveBack(w) \/ CleanAcquire(w)
  \/ Clean(w) \/ Uncount(w)

WorkerStep(w) ==
  \/ Dequeue(w) \/ Throw(w) \/ SignInThrows(w)
  \/ AcceptStep(w) \/ RecvStep(w) \/ DisposeStep(w)

KernelStep(s) == Deliver(s) \/ AbortRecv(s) \/ Disconnects(s)

ClientStep ==
  \/ ClientConnects \/ AcceptFails
  \/ \E s \in Sockets, kind \in ClientPackets : ClientSends(s, kind)
  \/ \E s \in Sockets, how \in Partings : ClientLeaves(s, how)

Next ==
  \/ \E w \in Workers : WorkerStep(w)
  \/ \E s \in Sockets : KernelStep(s)
  \/ ClientStep

Spec == Init /\ [][Next]_vars

(* Threads that can go on do, and the kernel completes what it can.        *)
FairSpec ==
  /\ Spec
  /\ \A w \in Workers : WF_vars(WorkerStep(w))
  /\ \A s \in Sockets : WF_vars(KernelStep(s))

-------------------------------------------------------------------------------
(* Who is inside a critical section of which session.  The lock itself     *)
(* does not know: Spinlock is one flag.                                    *)
Holds(w, p) == pc[w] \in HoldingSteps /\ spot[w] = p

Leaked(p) == locked[p] /\ \A w \in Workers : ~ Holds(w, p)

(* "Acquires the ownership of the session" (Session.hpp:171): two workers  *)
(* are never both between Acquire and Release of one session, and the flag *)
(* is set while one is.                                                    *)
SessionMutex ==
  \A p \in Places, v, w \in Workers :
    /\ Holds(v, p) => locked[p]
    /\ Holds(v, p) /\ Holds(w, p) => v = w

(* A lock is only ever cleared by the worker inside it: no handler         *)
(* releases a session another handler acquired, nor one that leaked.       *)
ReleasedByOwner ==
  [][\A p \in Places : locked[p] /\ ~ locked'[p] =>
       \E w \in Workers : Holds(w, p) /\ ~ Holds(w, p)']_vars

(* A session has one OVERLAPPED and one buffer for its receives: as long   *)
(* as one connection is made, so that no other session's receives come in, *)
(* at most one receive is outstanding, or completed and not yet copied     *)
(* (BeginRecv starts the only one, Swallow renews it).                     *)
OneReceive ==
  connections <= 1 =>
    \A s \in Sockets :
      Len(recvq[s]) + Cardinality({i \in 1..Len(port) : port[i].op = "RECV"})
        + Cardinality({w \in Workers : At(w, "swallow")}) <= 1

(* A socket has one owner: the acceptor, while AcceptEx is outstanding or  *)
(* completed on it, the worker Update gave it to, or one session.  So no   *)
(* two sessions ever talk to one client (Update, AcceptPlayer, Ready).     *)
(* With sockets that serve again it would fail: ProceedDispose gives the   *)
(* socket back before the session lets go of it.                           *)
OneOwner ==
  ~ Reusable =>
    \A s \in Sockets :
      /\ \A p, q \in Places : mySocket[p] = s /\ mySocket[q] = s => p = q
      /\ \A v, w \in Workers : hand[v] = s /\ hand[w] = s => v = w
      /\ \A p \in Places, w \in Workers : ~ (mySocket[p] = s /\ hand[w] = s)
      /\ connectWorker # "idle" /\ connectNewbie = s =>
           /\ \A p \in Places : mySocket[p] # s
           /\ \A w \in Workers : hand[w] # s

(* The server never forgets to accept: while it runs, AcceptEx is          *)
(* outstanding, or completed and not yet dispatched, or being renewed, or  *)
(* the socket it was called on could not be used (ProceedAccept, Update).  *)
AcceptsOn ==
  /\ ~ Reusable
  /\ connectWorker = "idle"
  /\ \A w \in Workers : call[w] = "none"
  /\ \E w \in Workers : pc[w] # "gone"
  => ~ Acceptable(connectNewbie)

(* numberUsers, an unsigned, only goes below zero, which closes the server,*)
(* through the store of AcceptPlayer: as long as no count changed between  *)
(* the load and the store of another worker, every connection counted out  *)
(* was counted in, and once, however receives, CS_DISPOSE and              *)
(* disconnections of several connections overlap on session 0.             *)
CountsBalance ==
  ~ Reusable /\ ~ overtaken => numberUsers <= MaxUsers

(* As long as one connection is made, its socket is given back once at     *)
(* most, not while it is accepted on: the pool never holds a socket twice  *)
(* (Push in ProceedDispose, CS_DISPOSE and ProceedAccept, Pop).            *)
GivenBackOnce ==
  connections <= 1 =>
    \A i, j \in 1..Len(socketsPool) :
      socketsPool[i] # NULL =>
        /\ socketsPool[i] = socketsPool[j] => i = j
        /\ socketsPool[i] # connectNewbie

(* A connection that has ended is not forgotten: a session that still has  *)
(* its socket will be cleaned up, by a completion that waits or a worker   *)
(* that has it (BeginDisconnect, RouteSucceed, ProceedDispose, CS_DISPOSE).*)
(* It would fail after a failed DisconnectEx, and with sockets that serve  *)
(* again: the second connection of a socket its session still has.         *)
NoneForgotten ==
  ~ Reusable /\ ~ Faults =>
    \A p \in Places :
      mySocket[p] # NULL /\ endpoint[mySocket[p]] \notin {"connected",
      "closing"}
        => \/ \E i \in 1..Len(port) : port[i].op = "DISPOSE" /\ port[i].ok
           \/ \E w \in Workers :
                pc[w] \in {"giveback", "cleaning", "clean"} /\ spot[w] = p

(* The socket of a session changes only under its lock (Ready, Cleanup).   *)
SocketUnderLock ==
  [][\A p \in Places : mySocket'[p] # mySocket[p] =>
       \E w \in Workers : Holds(w, p)]_vars

(* Once its client has closed, a connection is received from without end:  *)
(* every receive ends at once with zero bytes, which Swallow takes for an  *)
(* empty packet and receives again (Session.hpp:106).                      *)
Draining(s) == link[s] = "fin" /\ endpoint[s] = "connected"

(* A worker that hangs hangs on a leaked lock, or beside the workers that  *)
(* go round a connection its client closed and take the lock from it again *)
(* and again.  As long as no handler forgets to release, and the server    *)
(* gets rid of the connections its clients close, every worker comes back  *)
(* to the port: no handler waits inside a lock for what another has to do. *)
WorkersComeBack ==
  /\ [] \A p \in Places : ~ Leaked(p)
  /\ \A s \in Sockets : <>[] ~ Draining(s)
  => \A w \in Workers : (pc[w] # "port") ~> (pc[w] = "port")

(* A connection reset while a receive is outstanding on it is noticed, and *)
(* its session cleaned up (RouteFailed, BeginDisconnect, ProceedDispose),  *)
(* as long as no lock leaks.  For a server of one connection: the receives *)
(* of others go to session 0 too.                                          *)
ResetCleansUp ==
  ([] \A p \in Places : ~ Leaked(p)) =>
    \A p \in Places, s \in Sockets :
      (mySocket[p] = s /\ link[s] = "rst" /\ recvq[s] # <<>>)
        ~> (mySocket[p] # s)

-------------------------------------------------------------------------------
(* What the comments and the protocol description say, which the code does *)
(* not do.                                                                 *)

(* "The session handles its receive inside" (Session.hpp:205): the session  *)
(* that swallows what a receive brought is the one that began it.          *)
SwallowsItsOwn ==
  \A w \in Workers : At(w, "swallow") => job[w].receiver = spot[w]

(* The server "connects a session" for a connection it accepts             *)
(* (line 3 of the protocol description): no connection loses its session   *)
(* to another one while it is up.                                          *)
OwnSession ==
  [][\A p \in Places :
       mySocket[p] # NULL /\ mySocket'[p] # mySocket[p]
         => endpoint[mySocket[p]] # "connected" \/ mySocket'[p] = NULL]_vars

(* A login request is answered (line 6 of the protocol description).       *)
LoginAnswered ==
  \A s \in Sockets : (sent[s] > 0) ~> (<<s, s>> \in replies)
===============================================================================
