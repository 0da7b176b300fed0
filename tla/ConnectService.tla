---------------------------- MODULE ConnectService ----------------------------
(***************************************************************************)
(* The acceptor of the server (ConnectService.hpp): a pool of sockets made *)
(* in advance, one socket waiting in AcceptEx, and the completion of that  *)
(* AcceptEx re-arming it with the next socket of the pool.                 *)
(*                                                                         *)
(* This module holds the state and the operations.  SocketCycle gives them *)
(* a well-behaved caller, Framework the caller of the program.             *)
(***************************************************************************)
EXTENDS Integers, Sequences, FiniteSets

CONSTANTS Sockets,   (* the MAX_USERS sockets of the pool                  *)
          NULL,      (* the null SOCKET                                    *)
          Workers,   (* the threads that call Update                       *)
          Reusable   (* does a disconnected socket serve AcceptEx again?   *)

ASSUME ConnectAssumption ==
  /\ IsFiniteSet(Sockets) /\ Sockets # {}
  /\ NULL \notin Sockets
  /\ Reusable \in BOOLEAN

VARIABLES
  socketsPool,    (* the deque, its back first: Pop takes the head         *)
  connectNewbie,  (* the socket given to AcceptEx last                     *)
  connectWorker,  (* the one OVERLAPPED of AcceptEx: "idle", "pending" in  *)
                  (* the kernel, or "done" with its completion not yet     *)
                  (* handled                                               *)
  endpoint,       (* what the kernel holds for each socket                 *)
  call,           (* where each worker is inside Update                    *)
  hand            (* the local `newbie` of Update, then what it returned   *)

connectVars ==
  <<socketsPool, connectNewbie, connectWorker, endpoint, call, hand>>

Endpoints == {"fresh", "accepting", "connected", "closing", "closed"}
Calls     == {"none", "pop", "accept"}

ConnectTypeOK ==
  /\ socketsPool   \in Seq(Sockets \cup {NULL})
  /\ connectNewbie \in Sockets \cup {NULL}
  /\ connectWorker \in {"idle", "pending", "done"}
  /\ endpoint      \in [Sockets -> Endpoints]
  /\ call          \in [Workers -> Calls]
  /\ hand          \in [Workers -> Sockets \cup {NULL}]

-------------------------------------------------------------------------------

(* The state a socket is in once it is disconnected.  DisconnectEx is      *)
(* called with flags 0, without TF_REUSE_SOCKET.                           *)
Disconnected == IF Reusable THEN "fresh" ELSE "closed"

(* AcceptEx refuses the null socket and one that is, or was, in use.       *)
Acceptable(s) == s \in Sockets /\ endpoint[s] = "fresh"

(* What Pop returns.                                                       *)
Popped == IF socketsPool = <<>> THEN NULL ELSE Head(socketsPool)

(* What Pop leaves in the deque.                                           *)
AfterPop == IF socketsPool = <<>> THEN <<>> ELSE Tail(socketsPool)

(* Push puts at the front what Pop takes from the back.                    *)
Push(s) == socketsPool' = Append(socketsPool, s)

(* Arm the OVERLAPPED with the socket s, or report the error and go on.    *)
Accept(s) ==
  IF Acceptable(s)
  THEN /\ connectWorker' = "pending"
       /\ endpoint' = [endpoint EXCEPT ![s] = "accepting"]
  ELSE /\ connectWorker' = "idle"
       /\ UNCHANGED endpoint

(* Awake fills the pool with new sockets, in any order.                    *)
Pools == {pool \in [1..Cardinality(Sockets) -> Sockets] :
            \A i, j \in 1..Cardinality(Sockets) : pool[i] = pool[j] => i = j}

(* Start pops the first socket of the pool and accepts on it, before any   *)
(* worker runs.                                                            *)
ConnectInit ==
  /\ \E pool \in Pools :
       /\ socketsPool = Tail(pool)
       /\ connectNewbie = Head(pool)
       /\ connectWorker = "pending"
       /\ endpoint = [s \in Sockets |->
                        IF s = Head(pool) THEN "accepting" ELSE "fresh"]
  /\ call = [w \in Workers |-> "none"]
  /\ hand = [w \in Workers |-> NULL]

-------------------------------------------------------------------------------

(* Update is three steps: load the socket just connected; pop the next and *)
(* store it; accept on it.                                                 *)

(* Mutant: AcceptEx is renewed before the next socket is in place.         *)
UpdateLoadEarly(w) ==
  /\ call[w] = "none"
  /\ call' = [call EXCEPT ![w] = "pop"]
  /\ hand' = [hand EXCEPT ![w] = connectNewbie]
  /\ connectWorker' = "pending"
  /\ UNCHANGED <<socketsPool, connectNewbie, endpoint>>

(* The completion is no longer waiting: the socket just connected is       *)
(* loaded.  (Update clears the buffer of the OVERLAPPED after the pop.)    *)
UpdateLoad(w) ==
  /\ call[w] = "none"
  /\ call' = [call EXCEPT ![w] = "pop"]
  /\ hand' = [hand EXCEPT ![w] = connectNewbie]
  /\ connectWorker' = "idle"
  /\ UNCHANGED <<socketsPool, connectNewbie, endpoint>>

(* Mutant: a second socket is popped and lost.                             *)
UpdatePopTwo(w) ==
  /\ call[w] = "pop"
  /\ call' = [call EXCEPT ![w] = "accept"]
  /\ connectNewbie' = Popped
  /\ socketsPool' = IF Len(socketsPool) < 2 THEN <<>>
                    ELSE Tail(Tail(socketsPool))
  /\ UNCHANGED <<connectWorker, endpoint, hand>>

(* The next socket is popped and stored.                                   *)
UpdatePop(w) ==
  /\ call[w] = "pop"
  /\ call' = [call EXCEPT ![w] = "accept"]
  /\ connectNewbie' = Popped
  /\ socketsPool' = AfterPop
  /\ UNCHANGED <<connectWorker, endpoint, hand>>

(* Mutant: the next connection is not accepted.                            *)
UpdateForget(w) ==
  /\ call[w] = "accept"
  /\ call' = [call EXCEPT ![w] = "none"]
  /\ UNCHANGED <<socketsPool, connectNewbie, connectWorker, endpoint, hand>>

(* AcceptEx is renewed on the stored socket.                               *)
UpdateAccept(w) ==
  /\ call[w] = "accept"
  /\ call' = [call EXCEPT ![w] = "none"]
  /\ Accept(connectNewbie)
  /\ UNCHANGED <<socketsPool, connectNewbie, hand>>

(* A client's connection completes the pending AcceptEx.                   *)
ClientArrives ==
  /\ connectWorker = "pending"
  /\ connectWorker' = "done"
  /\ endpoint' = [endpoint EXCEPT ![connectNewbie] = "connected"]
  /\ UNCHANGED <<socketsPool, connectNewbie, call, hand>>

(* The caller's use of the returned socket: it lets go of it, keeps it in  *)
(* a session or gives it back.                                             *)
LetGo(w) == hand' = [hand EXCEPT ![w] = NULL]

-------------------------------------------------------------------------------

(* The OVERLAPPED of AcceptEx and connectNewbie are shared by all workers  *)
(* without a lock: what protects them is that at most one AcceptEx is      *)
(* outstanding or being renewed at any time.                               *)
AcceptSingle ==
  /\ \A v, w \in Workers : call[v] # "none" /\ call[w] # "none" => v = w
  /\ connectWorker # "idle" => \A w \in Workers : call[w] = "none"
===============================================================================
