-------------------------- MODULE SocketCycleProofs --------------------------
(***************************************************************************)
(* Proofs about SocketCycle, for any number of sockets and of workers.     *)
(* The inductive invariant is the conjunction of the five invariants TLC   *)
(* checks: a socket is in one place (OnePlace) because the AcceptEx is     *)
(* owned by one step at a time (AcceptSingle) and the kernel's view agrees *)
(* with the program's (EndpointsAgree).                                    *)
(***************************************************************************)
EXTENDS SocketCycle, FiniteSetTheorems, TLAPS

Inv ==
  /\ TypeOK
  /\ AcceptSingle
  /\ PoolDistinct
  /\ OnePlace
  /\ EndpointsAgree

(* Push: the pool is one longer, the new element is last.                  *)
LEMMA PushLemma ==
  ASSUME NEW T, NEW q \in Seq(T), NEW x \in T
  PROVE  LET r == Append(q, x) IN
         /\ r \in Seq(T)
         /\ Len(r) = Len(q) + 1
         /\ \A i \in 1..Len(q) : r[i] = q[i]
         /\ r[Len(q) + 1] = x
  OBVIOUS

(* Pop: the pool is one shorter, the rest moves up by one.                 *)
LEMMA PopLemma ==
  ASSUME NEW T, NEW q \in Seq(T), q # <<>>
  PROVE  /\ Head(q) = q[1] /\ Head(q) \in T
         /\ Tail(q) \in Seq(T)
         /\ Len(q) \in Nat \ {0}
         /\ Len(Tail(q)) = Len(q) - 1
         /\ \A i \in 1..Len(q) - 1 : Tail(q)[i] = q[i + 1]
  OBVIOUS

(* Awake and Start: the pool is filled, one socket is popped and accepted  *)
(* on, and each socket is in one place.                                    *)
LEMMA InitInv == Init => Inv
<1> SUFFICES ASSUME Init PROVE Inv
  OBVIOUS
<1> USE ConnectAssumption
<1> DEFINE N == Cardinality(Sockets)
<1>1. N \in Nat /\ N # 0
  BY FS_CardinalityType, FS_EmptySet
<1>2. PICK pool \in Pools :
        /\ socketsPool = Tail(pool)
        /\ connectNewbie = Head(pool)
        /\ connectWorker = "pending"
        /\ endpoint = [s \in Sockets |->
                         IF s = Head(pool) THEN "accepting" ELSE "fresh"]
  BY DEF Init, ConnectInit
<1>3. /\ call = [w \in Workers |-> "none"]
      /\ hand = [w \in Workers |-> NULL]
      /\ mySocket = [p \in Places |-> NULL]
      /\ leaving = {}
  BY DEF Init, ConnectInit
<1>4. /\ pool \in Seq(Sockets) /\ Len(pool) = N /\ pool # <<>>
      /\ \A i, j \in 1..N : pool[i] = pool[j] => i = j
  <2>1. pool \in [1..N -> Sockets]
    BY DEF Pools
  <2>2. pool \in Seq(Sockets) /\ Len(pool) = N
    BY <1>1, <2>1
  <2> QED
    BY <1>1, <2>2 DEF Pools
<1> HIDE DEF N
<1>5. /\ connectNewbie = pool[1] /\ connectNewbie \in Sockets
      /\ socketsPool \in Seq(Sockets)
      /\ Len(socketsPool) = N - 1
      /\ \A i \in 1..N - 1 : socketsPool[i] = pool[i + 1]
  BY <1>2, <1>4, PopLemma
<1>6. \A i \in 1..Len(socketsPool) :
        socketsPool[i] # connectNewbie /\ socketsPool[i] \in Sockets
  BY <1>1, <1>4, <1>5
<1>7. TypeOK
  BY <1>2, <1>3, <1>5 DEF TypeOK, ConnectTypeOK, Endpoints, Calls
<1>8. AcceptSingle
  BY <1>3 DEF AcceptSingle
<1>9. PoolDistinct
  BY <1>1, <1>4, <1>5 DEF PoolDistinct
<1>10. OnePlace
  BY <1>3, <1>6 DEF OnePlace, InPool, IsNewbie, InHand, Kept, Holding
<1>11. EndpointsAgree
  BY <1>2, <1>3, <1>5, <1>6 DEF EndpointsAgree, InPool, InHand
<1> QED
  BY <1>7, <1>8, <1>9, <1>10, <1>11 DEF Inv

(* What the sessions hold depends on their own variables only.             *)
LEMMA KeptLemma ==
  ASSUME UNCHANGED cycleVars
  PROVE  /\ \A s : Kept(s)' = Kept(s)
         /\ \A p : Holding(p)' = Holding(p) /\ mySocket'[p] = mySocket[p]
BY DEF cycleVars, Kept, Holding

(* A worker takes the completion: the socket accepted on is in its hand.   *)
LEMMA DispatchInv ==
  ASSUME Inv, NEW w \in Workers, Dispatch(w)
  PROVE  Inv'
<1> USE ConnectAssumption DEF Inv, Dispatch, UpdateLoad, TypeOK, ConnectTypeOK
<1>1. /\ connectNewbie \in Sockets /\ endpoint[connectNewbie] = "connected"
      /\ \A v \in Workers : call[v] = "none"
      /\ hand[w] = NULL
      /\ IsNewbie(connectNewbie)
  BY DEF EndpointsAgree, AcceptSingle, Returned, IsNewbie, Accepting
<1>2. call'[w] = "pop" /\ hand'[w] = connectNewbie
  OBVIOUS
<1>3. \A v \in Workers \ {w} : hand'[v] = hand[v] /\ call'[v] = "none"
  BY <1>1
<1>4. \A s \in Sockets : InHand(s)' => InHand(s) \/ s = connectNewbie
  BY <1>2, <1>3 DEF InHand
<1>5. \A s \in Sockets : InPool(s)' = InPool(s)
  BY DEF InPool
<1>6. \A s \in Sockets : ~ IsNewbie(s)'
  BY <1>2 DEF IsNewbie, Accepting
<1>7. TypeOK'
  BY <1>1 DEF Calls, cycleVars
<1>8. AcceptSingle'
  BY <1>3 DEF AcceptSingle
<1>9. PoolDistinct'
  BY DEF PoolDistinct
<1>10. OnePlace'
  <2>1. \A s \in Sockets : InPool(s)' => ~ InHand(s)' /\ ~ Kept(s)'
    BY <1>1, <1>4, <1>5, KeptLemma DEF OnePlace
  <2>2. \A s \in Sockets : InHand(s)' => ~ Kept(s)'
    BY <1>1, <1>4, KeptLemma DEF OnePlace
  <2>3. \A v \in Workers : hand[v] # connectNewbie
    BY <1>1 DEF OnePlace, InHand
  <2>4. \A u, v \in Workers : hand'[u] = hand'[v] /\ hand'[u] # NULL => u = v
    BY <1>2, <1>3, <2>3 DEF OnePlace
  <2> QED
    BY <1>6, <2>1, <2>2, <2>4, KeptLemma DEF OnePlace
<1>11. EndpointsAgree'
  BY <1>1, <1>4, <1>5 DEF EndpointsAgree
<1> QED
  BY <1>7, <1>8, <1>9, <1>10, <1>11

(* Update pops: the socket leaves the pool and is the newbie.              *)
LEMMA PopInv ==
  ASSUME Inv, NEW w \in Workers, Pop(w)
  PROVE  Inv'
<1> USE ConnectAssumption DEF Inv, Pop, UpdatePop, TypeOK, ConnectTypeOK
<1>1. /\ connectWorker = "idle" /\ connectWorker' = "idle"
      /\ \A v \in Workers \ {w} : call[v] = "none"
  BY DEF AcceptSingle
<1>2. /\ Popped \in Sockets \cup {NULL}
      /\ socketsPool' \in Seq(Sockets \cup {NULL})
      /\ \A i \in 1..Len(socketsPool') :
           i + 1 \in 1..Len(socketsPool) /\ socketsPool'[i] = socketsPool[i + 1]
      /\ Popped # NULL => /\ 1 \in 1..Len(socketsPool)
                          /\ Popped = socketsPool[1]
  <2>1. CASE socketsPool = <<>>
    BY <2>1 DEF Popped, AfterPop
  <2>2. CASE socketsPool # <<>>
    BY <2>2, PopLemma DEF Popped, AfterPop
  <2> QED
    BY <2>1, <2>2
<1>3. \A s \in Sockets : /\ InPool(s)' => InPool(s)
                         /\ InPool(s)' => s # Popped
  BY <1>2 DEF InPool, PoolDistinct
<1>4. \A s \in Sockets : IsNewbie(s)' => InPool(s) /\ s = Popped
  BY <1>2 DEF IsNewbie, InPool
<1>5. \A s \in Sockets : InHand(s)' = InHand(s)
  BY DEF InHand
<1>6. TypeOK'
  BY <1>2 DEF Calls, cycleVars
<1>7. AcceptSingle'
  BY <1>1 DEF AcceptSingle
<1>8. PoolDistinct'
  BY <1>2 DEF PoolDistinct
<1>9. OnePlace'
  BY <1>3, <1>4, <1>5, KeptLemma DEF OnePlace
<1>10. EndpointsAgree'
  BY <1>1, <1>3, <1>5 DEF EndpointsAgree
<1> QED
  BY <1>6, <1>7, <1>8, <1>9, <1>10

(* Update accepts: the newbie, which nobody else has, is armed.            *)
LEMMA RearmInv ==
  ASSUME Inv, NEW w \in Workers, Rearm(w)
  PROVE  Inv'
<1> USE ConnectAssumption DEF Inv, Rearm, UpdateAccept, TypeOK, ConnectTypeOK
<1>1. /\ connectWorker = "idle"
      /\ \A v \in Workers : call'[v] = "none"
      /\ Accepting
  BY DEF AcceptSingle, Accepting
<1>2. \A s \in Sockets : /\ InPool(s)' = InPool(s)
                         /\ InHand(s)' = InHand(s)
                         /\ IsNewbie(s)' => IsNewbie(s)
  BY <1>1 DEF InPool, InHand, IsNewbie
<1>3. \/ /\ connectNewbie \in Sockets /\ connectWorker' = "pending"
         /\ endpoint' = [endpoint EXCEPT ![connectNewbie] = "accepting"]
      \/ connectWorker' = "idle" /\ endpoint' = endpoint
  BY DEF Accept, Acceptable
<1>4. connectNewbie \in Sockets => /\ ~ InPool(connectNewbie)
                                   /\ ~ InHand(connectNewbie)
  BY <1>1 DEF OnePlace, IsNewbie
<1>5. TypeOK'
  BY <1>3 DEF Calls, Endpoints, cycleVars
<1>6. AcceptSingle'
  BY <1>1 DEF AcceptSingle
<1>7. PoolDistinct'
  BY DEF PoolDistinct
<1>8. OnePlace'
  BY <1>2, KeptLemma DEF OnePlace
<1>9. EndpointsAgree'
  BY <1>2, <1>3, <1>4 DEF EndpointsAgree
<1> QED
  BY <1>5, <1>6, <1>7, <1>8, <1>9

(* The client arrives: AcceptEx completes on the newbie.                   *)
LEMMA ConnectInv ==
  ASSUME Inv, Connect
  PROVE  Inv'
<1> USE ConnectAssumption DEF Inv, Connect, ClientArrives, TypeOK, ConnectTypeOK
<1>1. /\ connectNewbie \in Sockets
      /\ IsNewbie(connectNewbie)
  BY DEF EndpointsAgree, AcceptSingle, IsNewbie, Accepting
<1>2. \A s \in Sockets : /\ InPool(s)' = InPool(s)
                         /\ InHand(s)' = InHand(s)
                         /\ IsNewbie(s)' = IsNewbie(s)
  BY DEF InPool, InHand, IsNewbie, Accepting
<1>3. ~ InPool(connectNewbie) /\ ~ InHand(connectNewbie)
  BY <1>1 DEF OnePlace
<1>4. TypeOK'
  BY DEF Endpoints, cycleVars
<1>5. AcceptSingle'
  BY DEF AcceptSingle
<1>6. PoolDistinct'
  BY DEF PoolDistinct
<1>7. OnePlace'
  BY <1>2, KeptLemma DEF OnePlace
<1>8. EndpointsAgree'
  BY <1>1, <1>2, <1>3 DEF EndpointsAgree
<1> QED
  BY <1>4, <1>5, <1>6, <1>7, <1>8

(* The socket is lost: nothing else moves.                                 *)
LEMMA DropInv ==
  ASSUME Inv, NEW w \in Workers, Drop(w)
  PROVE  Inv'
<1> USE ConnectAssumption DEF Inv, Drop, LetGo, Returned, TypeOK, ConnectTypeOK
<1>1. \A s \in Sockets : /\ InPool(s)' = InPool(s)
                         /\ IsNewbie(s)' = IsNewbie(s)
                         /\ InHand(s)' => InHand(s)
  BY DEF InPool, InHand, IsNewbie, Accepting
<1>2. TypeOK'
  BY DEF cycleVars
<1>3. AcceptSingle' /\ PoolDistinct'
  BY DEF AcceptSingle, PoolDistinct
<1>4. OnePlace'
  BY <1>1, KeptLemma DEF OnePlace
<1>5. EndpointsAgree'
  BY <1>1 DEF EndpointsAgree
<1> QED
  BY <1>2, <1>3, <1>4, <1>5

(* A free session takes the socket out of the hand.                        *)
LEMMA KeepInv ==
  ASSUME Inv, NEW w \in Workers, NEW p \in Places, Keep(w, p)
  PROVE  Inv'
<1> USE ConnectAssumption DEF Inv, Keep, LetGo, Returned, TypeOK, ConnectTypeOK
<1>1. /\ hand[w] \in Sockets /\ InHand(hand[w]) /\ ~ Kept(hand[w])
      /\ hand'[w] = NULL
      /\ \A v \in Workers \ {w} : hand'[v] = hand[v]
  BY DEF InHand, OnePlace
<1>2. \A s \in Sockets : /\ InPool(s)' = InPool(s)
                         /\ IsNewbie(s)' = IsNewbie(s)
                         /\ InHand(s)' => InHand(s) /\ s # hand[w]
  BY <1>1 DEF InPool, InHand, IsNewbie, Accepting, OnePlace
<1>3. /\ mySocket'[p] = hand[w] /\ p \notin leaving /\ leaving' = leaving
      /\ \A q \in Places \ {p} : mySocket'[q] = mySocket[q]
  OBVIOUS
<1>4. /\ \A q \in Places \ {p} : Holding(q)' = Holding(q)
      /\ \A s \in Sockets : Kept(s)' => Kept(s) \/ s = hand[w]
  BY <1>3 DEF Holding, Kept
<1>5. TypeOK'
  BY <1>1, <1>3
<1>6. AcceptSingle' /\ PoolDistinct'
  BY DEF AcceptSingle, PoolDistinct
<1>7. OnePlace'
  <2>1. \A s \in Sockets :
          /\ InPool(s)'   => ~ IsNewbie(s)' /\ ~ InHand(s)' /\ ~ Kept(s)'
          /\ IsNewbie(s)' => ~ InHand(s)' /\ ~ Kept(s)'
          /\ InHand(s)'   => ~ Kept(s)'
    BY <1>1, <1>2, <1>4 DEF OnePlace
  <2>2. \A q, r \in Places :
          Holding(q)' /\ Holding(r)' /\ mySocket'[q] = mySocket'[r] => q = r
    BY <1>1, <1>3, <1>4 DEF OnePlace, Kept
  <2>3. \A u, v \in Workers : hand'[u] = hand'[v] /\ hand'[u] # NULL => u = v
    BY <1>1 DEF OnePlace
  <2> QED
    BY <2>1, <2>2, <2>3 DEF OnePlace
<1>8. EndpointsAgree'
  BY <1>2 DEF EndpointsAgree
<1> QED
  BY <1>5, <1>6, <1>7, <1>8

(* A socket that is nowhere else goes back to the pool: the part common to *)
(* Refuse and Return.                                                      *)
LEMMA PushInv ==
  ASSUME Inv, NEW x \in Sockets \cup {NULL}, Push(x),
         x # NULL => ~ InPool(x)
  PROVE  /\ socketsPool' \in Seq(Sockets \cup {NULL})
         /\ PoolDistinct'
         /\ \A s \in Sockets : InPool(s)' <=> InPool(s) \/ s = x
<1> USE ConnectAssumption DEF Inv, TypeOK, ConnectTypeOK, Push
<1> DEFINE n == Len(socketsPool)
<1>1. /\ socketsPool' \in Seq(Sockets \cup {NULL})
      /\ n \in Nat /\ Len(socketsPool') = n + 1
      /\ \A i \in 1..n : socketsPool'[i] = socketsPool[i]
      /\ socketsPool'[n + 1] = x
  BY PushLemma
<1>2. 1..Len(socketsPool') = (1..n) \cup {n + 1}
  BY <1>1
<1> HIDE DEF n
<1>3. PoolDistinct'
  <2> SUFFICES ASSUME NEW i \in 1..n + 1, NEW j \in 1..n + 1,
                      socketsPool'[i] = socketsPool'[j], socketsPool'[i] # NULL
               PROVE  i = j
    BY <1>1 DEF PoolDistinct
  <2>1. CASE i \in 1..n /\ j \in 1..n
    BY <1>1, <2>1 DEF PoolDistinct, n
  <2>2. CASE i = n + 1 /\ j \in 1..n
    BY <1>1, <2>2 DEF InPool, n
  <2>3. CASE i \in 1..n /\ j = n + 1
    BY <1>1, <2>3 DEF InPool, n
  <2> QED
    BY <1>1, <1>2, <2>1, <2>2, <2>3
<1>4. \A s \in Sockets : InPool(s)' <=> InPool(s) \/ s = x
  BY <1>1, <1>2 DEF InPool, n
<1> QED
  BY <1>1, <1>3, <1>4

(* The socket refused was in one hand, and is in the pool now.             *)
LEMMA RefuseInv ==
  ASSUME Inv, NEW w \in Workers, Refuse(w)
  PROVE  Inv'
<1> DEFINE x == hand[w]
<1> USE ConnectAssumption DEF Inv, Refuse, LetGo, Returned, TypeOK,
        ConnectTypeOK
<1>1. /\ x \in Sockets /\ InHand(x) /\ ~ InPool(x) /\ ~ Kept(x)
      /\ \A v \in Workers \ {w} : hand'[v] = hand[v]
      /\ hand'[w] = NULL
  BY DEF InHand, OnePlace
<1>2. connectWorker # "idle" => connectNewbie # x
  BY <1>1 DEF AcceptSingle, OnePlace, IsNewbie, Accepting
<1>3. /\ socketsPool' \in Seq(Sockets \cup {NULL})
      /\ PoolDistinct'
      /\ \A s \in Sockets : InPool(s)' <=> InPool(s) \/ s = x
  BY <1>1, PushInv
<1>4. \A s \in Sockets : /\ InHand(s)' => InHand(s) /\ s # x
                         /\ IsNewbie(s)' = IsNewbie(s)
  BY <1>1 DEF InHand, OnePlace, IsNewbie, Accepting
<1>5. endpoint' = [endpoint EXCEPT ![x] = Disconnected]
  OBVIOUS
<1>6. Disconnected \in {"fresh", "closed"}
  BY DEF Disconnected
<1> HIDE DEF x
<1>7. TypeOK'
  BY <1>1, <1>3, <1>5, <1>6 DEF Endpoints, cycleVars
<1>8. AcceptSingle'
  BY DEF AcceptSingle
<1>9. OnePlace'
  BY <1>1, <1>3, <1>4, KeptLemma DEF OnePlace
<1>10. EndpointsAgree'
  BY <1>2, <1>3, <1>4, <1>5, <1>6 DEF EndpointsAgree
<1> QED
  BY <1>3, <1>7, <1>8, <1>9, <1>10

(* The socket of a session is disconnected: it is not the newbie, nor in   *)
(* the pool.                                                               *)
LEMMA DisconnectInv ==
  ASSUME Inv, NEW p \in Places, Disconnect(p)
  PROVE  Inv'
<1> DEFINE x == mySocket[p]
<1> USE ConnectAssumption DEF Inv, Disconnect, TypeOK, ConnectTypeOK
<1>1. x \in Sockets /\ Kept(x)
  BY DEF Kept, Holding
<1>2. connectWorker # "idle" => connectNewbie # x
  BY <1>1 DEF AcceptSingle, OnePlace, IsNewbie, Accepting
<1>3. ~ InPool(x) /\ ~ InHand(x)
  BY <1>1 DEF OnePlace
<1>4. \A s \in Sockets : /\ InPool(s)' = InPool(s)
                         /\ InHand(s)' = InHand(s)
                         /\ IsNewbie(s)' = IsNewbie(s)
  BY DEF InPool, InHand, IsNewbie, Accepting
<1>5. TypeOK'
  BY <1>1 DEF Disconnected, Endpoints, cycleVars
<1>6. AcceptSingle' /\ PoolDistinct'
  BY DEF AcceptSingle, PoolDistinct
<1>7. OnePlace'
  BY <1>4, KeptLemma DEF OnePlace
<1>8. endpoint' = [endpoint EXCEPT ![x] = Disconnected]
  OBVIOUS
<1> HIDE DEF x
<1>9. EndpointsAgree'
  BY <1>1, <1>2, <1>3, <1>4, <1>8 DEF EndpointsAgree
<1> QED
  BY <1>5, <1>6, <1>7, <1>9

(* A session that gives its socket back, or lets go of it, holds none.     *)
LEMMA LeaveLemma ==
  ASSUME TypeOK, NEW p \in Places, Return(p) \/ Cleanup(p)
  PROVE  /\ ~ Holding(p)'
         /\ \A q \in Places \ {p} : /\ Holding(q)' = Holding(q)
                                   /\ mySocket'[q] = mySocket[q]
         /\ \A s \in Sockets : Kept(s)' => Kept(s)
BY DEF TypeOK, Return, Cleanup, Holding, Kept

(* The socket of a session goes back to the pool.                          *)
LEMMA ReturnInv ==
  ASSUME Inv, NEW p \in Places, Return(p)
  PROVE  Inv'
<1> DEFINE x == mySocket[p]
<1> USE ConnectAssumption DEF Inv, Return, TypeOK, ConnectTypeOK
<1>1. /\ x \in Sockets
      /\ ~ InPool(x) /\ ~ InHand(x) /\ ~ IsNewbie(x)
  BY DEF OnePlace, Kept, Holding
<1>2. /\ socketsPool' \in Seq(Sockets \cup {NULL})
      /\ PoolDistinct'
      /\ \A s \in Sockets : InPool(s)' <=> InPool(s) \/ s = x
  BY <1>1, PushInv
<1>3. \A s \in Sockets : /\ InHand(s)' = InHand(s)
                         /\ IsNewbie(s)' = IsNewbie(s)
  BY DEF InHand, IsNewbie, Accepting
<1>4. endpoint[x] \in {"fresh", "closed"}
  BY DEF Disconnected
<1>5. TypeOK' /\ AcceptSingle'
  BY <1>2 DEF AcceptSingle, Holding
<1>6. \A s \in Sockets : Kept(s)' => Kept(s) /\ s # x
  <2>1. \A q \in Places \ {p} : Holding(q) => mySocket[q] # x
    BY DEF OnePlace, Holding
  <2> QED
    BY <2>1, LeaveLemma DEF Kept
<1> HIDE DEF x
<1>7. OnePlace'
  <2>1. \A s \in Sockets :
          /\ InPool(s)'   => ~ IsNewbie(s)' /\ ~ InHand(s)' /\ ~ Kept(s)'
          /\ IsNewbie(s)' => ~ InHand(s)' /\ ~ Kept(s)'
          /\ InHand(s)'   => ~ Kept(s)'
    <3>1. \A s \in Sockets :
            /\ InPool(s)   => ~ IsNewbie(s) /\ ~ InHand(s) /\ ~ Kept(s)
            /\ IsNewbie(s) => ~ InHand(s) /\ ~ Kept(s)
            /\ InHand(s)   => ~ Kept(s)
      BY DEF OnePlace
    <3> QED
      BY <1>1, <1>2, <1>3, <1>6, <3>1
  <2>2. \A q, r \in Places :
          Holding(q)' /\ Holding(r)' /\ mySocket'[q] = mySocket'[r] => q = r
    BY LeaveLemma DEF OnePlace
  <2> QED
    BY <2>1, <2>2 DEF OnePlace
<1>8. EndpointsAgree'
  BY <1>2, <1>3, <1>4 DEF EndpointsAgree
<1> QED
  BY <1>2, <1>5, <1>7, <1>8

(* The session lets go of it: the socket may be anywhere by now.           *)
LEMMA CleanupInv ==
  ASSUME Inv, NEW p \in Places, Cleanup(p)
  PROVE  Inv'
<1> USE ConnectAssumption DEF Inv, Cleanup, TypeOK, ConnectTypeOK, connectVars
<1>1. \A s \in Sockets : /\ InPool(s)' = InPool(s)
                         /\ InHand(s)' = InHand(s)
                         /\ IsNewbie(s)' = IsNewbie(s)
  BY DEF InPool, InHand, IsNewbie, Accepting
<1>2. TypeOK'
  OBVIOUS
<1>3. AcceptSingle' /\ PoolDistinct'
  BY DEF AcceptSingle, PoolDistinct
<1>4. OnePlace'
  BY ZenonT(30), <1>1, LeaveLemma DEF OnePlace
<1>5. EndpointsAgree'
  BY <1>1 DEF EndpointsAgree
<1> QED
  BY <1>2, <1>3, <1>4, <1>5

(* A null socket in the pool is nobody's.                                  *)
LEMMA ReturnNullInv ==
  ASSUME Inv, ReturnNull
  PROVE  Inv'
<1> USE ConnectAssumption DEF Inv, ReturnNull, TypeOK, ConnectTypeOK
<1>1. /\ socketsPool' \in Seq(Sockets \cup {NULL})
      /\ PoolDistinct'
      /\ \A s \in Sockets : InPool(s)' <=> InPool(s)
  BY PushInv
<1>2. \A s \in Sockets : /\ InHand(s)' = InHand(s)
                         /\ IsNewbie(s)' = IsNewbie(s)
  BY DEF InHand, IsNewbie, Accepting
<1>3. TypeOK' /\ AcceptSingle'
  BY <1>1 DEF AcceptSingle, cycleVars
<1>4. OnePlace'
  BY <1>1, <1>2, KeptLemma DEF OnePlace
<1>5. EndpointsAgree'
  BY <1>1, <1>2 DEF EndpointsAgree
<1> QED
  BY <1>1, <1>3, <1>4, <1>5

LEMMA StutterInv ==
  ASSUME Inv, UNCHANGED vars
  PROVE  Inv'
<1> USE DEF Inv, vars, connectVars
<1>1. TypeOK'
  BY DEF TypeOK, ConnectTypeOK, cycleVars
<1>2. AcceptSingle' /\ PoolDistinct'
  BY DEF AcceptSingle, PoolDistinct
<1>3. \A s \in Sockets : /\ InPool(s)' = InPool(s)
                         /\ InHand(s)' = InHand(s)
                         /\ IsNewbie(s)' = IsNewbie(s)
  BY DEF InPool, InHand, IsNewbie, Accepting
<1>4. OnePlace'
  BY <1>3, KeptLemma DEF OnePlace
<1>5. EndpointsAgree'
  BY <1>3 DEF EndpointsAgree
<1> QED
  BY <1>1, <1>2, <1>4, <1>5

(* The invariants of the socket cycle hold for any number of sockets and   *)
(* of workers: one AcceptEx owned by one step, a pool without duplicates,  *)
(* each socket in one place, and the kernel's view agreeing with it.       *)
THEOREM CycleInvariant == Spec => []Inv
<1>1. Inv /\ [Next]_vars => Inv'
  <2> SUFFICES ASSUME Inv, [Next]_vars
               PROVE  Inv'
    OBVIOUS
  <2>1. CASE UNCHANGED vars
    BY <2>1, StutterInv
  <2>2. ASSUME NEW w \in Workers, WorkerStep(w)
        PROVE  Inv'
    BY <2>2, DispatchInv, PopInv, RearmInv, KeepInv, DropInv, RefuseInv
       DEF WorkerStep
  <2>3. ASSUME NEW p \in Places, Disconnect(p) \/ Return(p) \/ Cleanup(p)
        PROVE  Inv'
    BY <2>3, DisconnectInv, ReturnInv, CleanupInv
  <2>4. CASE Connect
    BY <2>4, ConnectInv
  <2>5. CASE ReturnNull
    BY <2>5, ReturnNullInv
  <2> QED
    BY <2>1, <2>2, <2>3, <2>4, <2>5 DEF Next
<1> QED
  BY <1>1, InitInv, PTL DEF Spec

(* The variables of the acceptor always have their types.                  *)
THEOREM CycleTyping == Spec => []TypeOK
BY CycleInvariant, PTL DEF Inv

(* The OVERLAPPED of AcceptEx and connectNewbie need no lock (Update).     *)
THEOREM CycleAcceptSingle == Spec => []AcceptSingle
BY CycleInvariant, PTL DEF Inv

(* No socket is queued twice (Push, Pop).                                  *)
THEOREM CyclePoolDistinct == Spec => []PoolDistinct
BY CycleInvariant, PTL DEF Inv

(* A socket is in one place at a time, sessions that have given it back    *)
(* and not yet let go of it apart (Update, Push, Pop, ProceedDispose).     *)
THEOREM CycleOnePlace == Spec => []OnePlace
BY CycleInvariant, PTL DEF Inv

(* AcceptEx is pending on a socket the kernel accepts on, and the pool     *)
(* holds none that is connected (Accept, Update).                          *)
THEOREM CycleEndpointsAgree == Spec => []EndpointsAgree
BY CycleInvariant, PTL DEF Inv

-------------------------------------------------------------------------------
(* SocketCycle implements SocketPool.                                      *)

(* Every socket starts in the pool or accepted on: Pools are bijections.   *)
LEMMA InitRefines == Init => Pool!PoolInit
<1> SUFFICES ASSUME Init PROVE Pool!PoolInit
  OBVIOUS
<1> USE ConnectAssumption
<1> DEFINE N == Cardinality(Sockets)
<1>1. N \in Nat /\ N # 0
  BY FS_CardinalityType, FS_EmptySet
<1>2. PICK pool \in Pools :
        socketsPool = Tail(pool) /\ connectNewbie = Head(pool)
  BY DEF Init, ConnectInit
<1>3. pool \in Injection(1..N, Sockets)
  BY <1>2 DEF Pools, Injection, IsInjective
<1>4. pool \in Surjection(1..N, Sockets)
  <2>1. IsFiniteSet(1..N) /\ Cardinality(1..N) = N
    BY <1>1, FS_Interval
  <2> QED
    BY <1>3, <2>1, FS_Injection
<1>5. /\ pool \in [1..N -> Sockets]
      /\ \A s \in Sockets : \E i \in 1..N : pool[i] = s
  BY <1>4 DEF Surjection
<1>6. pool \in Seq(Sockets) /\ Len(pool) = N /\ pool # <<>>
  <2>1. pool \in Seq(Sockets) /\ Len(pool) = N
    BY <1>1, <1>5
  <2> QED
    BY <1>1, <2>1
<1> HIDE DEF N
<1>7. /\ connectNewbie = pool[1]
      /\ Len(socketsPool) = N - 1
      /\ \A i \in 1..N - 1 : socketsPool[i] = pool[i + 1]
  BY <1>2, <1>6, PopLemma
<1>8. \A s \in Sockets : IsNewbie(s) \/ InPool(s)
  <2> SUFFICES ASSUME NEW s \in Sockets, s # connectNewbie
               PROVE  InPool(s)
    BY DEF IsNewbie, Accepting, Init, ConnectInit
  <2>1. PICK i \in 1..N : pool[i] = s
    BY <1>5
  <2>2. i # 1
    BY <1>7, <2>1
  <2>3. i - 1 \in 1..Len(socketsPool) /\ socketsPool[i - 1] = s
    BY <1>1, <1>7, <2>1, <2>2
  <2> QED
    BY <2>3 DEF InPool
<1> QED
  BY <1>8 DEF Pool!PoolInit, Pool!RoleTypeOK, Pool!Roles, RoleOf, IsNewbie

(* A step that moves one socket from one role to another.                  *)
LEMMA MoveLemma ==
  ASSUME NEW x \in Sockets, NEW from, NEW to,
         RoleOf[x] = from, RoleOf'[x] = to,
         \A s \in Sockets \ {x} : RoleOf'[s] = RoleOf[s]
  PROVE  Pool!SetRole(x, from, to)
<1>1. RoleOf' = [RoleOf EXCEPT ![x] = to]
  <2>1. \A s \in Sockets : RoleOf'[s] = [RoleOf EXCEPT ![x] = to][s]
    BY DEF RoleOf
  <2> QED
    BY <2>1 DEF RoleOf
<1> QED
  BY <1>1 DEF Pool!SetRole

(* A step that moves none.                                                 *)
LEMMA RestLemma ==
  ASSUME \A s \in Sockets : /\ IsNewbie(s)' = IsNewbie(s)
                            /\ InPool(s)' = InPool(s)
  PROVE  UNCHANGED RoleOf
BY DEF RoleOf

(* Dispatch hands the newbie out.                                          *)
LEMMA DispatchRefines ==
  ASSUME Inv, NEW w \in Workers, Dispatch(w)
  PROVE  Pool!PoolNext
<1> USE ConnectAssumption DEF Inv, Dispatch, UpdateLoad, TypeOK, ConnectTypeOK
<1>1. /\ connectNewbie \in Sockets /\ IsNewbie(connectNewbie)
      /\ ~ InPool(connectNewbie)
  BY DEF EndpointsAgree, AcceptSingle, OnePlace, IsNewbie, Accepting
<1>2. call'[w] = "pop"
  OBVIOUS
<1>3. \A s \in Sockets : InPool(s)' = InPool(s) /\ ~ IsNewbie(s)'
  BY <1>2 DEF InPool, IsNewbie, Accepting
<1>4. \A s \in Sockets \ {connectNewbie} : ~ IsNewbie(s)
  BY DEF IsNewbie
<1>5. /\ RoleOf[connectNewbie] = "newbie"
      /\ RoleOf'[connectNewbie] = "out"
      /\ \A s \in Sockets \ {connectNewbie} : RoleOf'[s] = RoleOf[s]
  BY <1>1, <1>3, <1>4 DEF RoleOf
<1> QED
  BY <1>1, <1>5, MoveLemma DEF Pool!PoolNext, Pool!HandOut

(* Pop makes the socket it takes the newbie, if it takes one.              *)
LEMMA PopRefines ==
  ASSUME Inv, Inv', NEW w \in Workers, Pop(w)
  PROVE  Pool!PoolNext \/ UNCHANGED RoleOf
<1> USE ConnectAssumption DEF Pop, UpdatePop
<1>1. /\ socketsPool \in Seq(Sockets \cup {NULL})
      /\ call \in [Workers -> Calls]
      /\ \A v \in Workers \ {w} : call[v] = "none"
      /\ PoolDistinct
  BY DEF Inv, TypeOK, ConnectTypeOK, AcceptSingle
<1>2. Accepting' /\ ~ Accepting
  BY <1>1 DEF Accepting
<1>3. \A s \in Sockets : /\ ~ IsNewbie(s)
                         /\ IsNewbie(s)' <=> s = Popped
  BY <1>2 DEF IsNewbie
<1>4. \A s \in Sockets : s # Popped => InPool(s)' = InPool(s)
  <2>1. CASE socketsPool = <<>>
    BY <2>1 DEF AfterPop, InPool
  <2>2. CASE socketsPool # <<>>
    <3>1. /\ Popped = socketsPool[1]
          /\ Len(socketsPool) \in Nat \ {0}
          /\ Len(socketsPool') = Len(socketsPool) - 1
          /\ \A i \in 1..Len(socketsPool) - 1 :
               socketsPool'[i] = socketsPool[i + 1]
      BY <1>1, <2>2, PopLemma DEF Popped, AfterPop
    <3>2. ASSUME NEW s \in Sockets, s # Popped, InPool(s)
          PROVE  InPool(s)'
      <4>1. PICK i \in 1..Len(socketsPool) : socketsPool[i] = s
        BY <3>2 DEF InPool
      <4>2. i - 1 \in 1..Len(socketsPool') /\ socketsPool'[i - 1] = s
        BY <3>1, <3>2, <4>1
      <4> QED
        BY <4>2 DEF InPool
    <3>3. ASSUME NEW s \in Sockets, InPool(s)'
          PROVE  InPool(s)
      BY <3>1, <3>3 DEF InPool
    <3> QED
      BY <3>2, <3>3 DEF InPool
  <2> QED
    BY <2>1, <2>2
<1>5. CASE Popped \in Sockets
  <2>1. InPool(Popped)
    BY <1>1, <1>5, PopLemma DEF Popped, InPool
  <2>2. /\ RoleOf[Popped] = "free"
        /\ RoleOf'[Popped] = "newbie"
        /\ \A s \in Sockets \ {Popped} : RoleOf'[s] = RoleOf[s]
    BY <1>3, <1>4, <1>5, <2>1 DEF RoleOf
  <2>3. Pool!NoNewbie
    BY <1>3 DEF Pool!NoNewbie, RoleOf
  <2> QED
    BY <1>5, <2>2, <2>3, MoveLemma DEF Pool!PoolNext, Pool!Listen
<1>6. CASE Popped \notin Sockets
  <2>1. \A s \in Sockets : IsNewbie(s)' = IsNewbie(s)
    BY <1>3, <1>6 DEF IsNewbie
  <2>2. \A s \in Sockets : InPool(s)' = InPool(s)
    BY <1>4, <1>6
  <2> QED
    BY <2>1, <2>2, RestLemma
<1> QED
  BY <1>5, <1>6

(* Refuse and Return give the socket back.                                 *)
LEMMA RefuseRefines ==
  ASSUME Inv, NEW w \in Workers, Refuse(w)
  PROVE  Pool!PoolNext
<1> DEFINE x == hand[w]
<1> USE ConnectAssumption DEF Inv, Refuse, Returned, TypeOK, ConnectTypeOK
<1>1. x \in Sockets /\ ~ InPool(x) /\ ~ IsNewbie(x)
  BY DEF OnePlace, InHand
<1>2. \A s \in Sockets : InPool(s)' <=> InPool(s) \/ s = x
  BY <1>1, PushInv
<1>3. \A s \in Sockets : IsNewbie(s)' = IsNewbie(s)
  BY DEF IsNewbie, Accepting
<1> HIDE DEF x
<1>4. /\ RoleOf[x] = "out"
      /\ RoleOf'[x] = "free"
      /\ \A s \in Sockets \ {x} : RoleOf'[s] = RoleOf[s]
  BY <1>1, <1>2, <1>3 DEF RoleOf
<1> QED
  BY <1>1, <1>4, MoveLemma DEF Pool!PoolNext, Pool!GiveBack

LEMMA ReturnRefines ==
  ASSUME Inv, NEW p \in Places, Return(p)
  PROVE  Pool!PoolNext
<1> DEFINE x == mySocket[p]
<1> USE ConnectAssumption DEF Inv, Return, TypeOK, ConnectTypeOK
<1>1. x \in Sockets /\ ~ InPool(x) /\ ~ IsNewbie(x)
  BY DEF OnePlace, Kept, Holding
<1>2. \A s \in Sockets : InPool(s)' <=> InPool(s) \/ s = x
  BY <1>1, PushInv
<1>3. \A s \in Sockets : IsNewbie(s)' = IsNewbie(s)
  BY DEF IsNewbie, Accepting
<1> HIDE DEF x
<1>4. /\ RoleOf[x] = "out"
      /\ RoleOf'[x] = "free"
      /\ \A s \in Sockets \ {x} : RoleOf'[s] = RoleOf[s]
  BY <1>1, <1>2, <1>3 DEF RoleOf
<1> QED
  BY <1>1, <1>4, MoveLemma DEF Pool!PoolNext, Pool!GiveBack

(* The other steps move no socket.                                         *)
LEMMA RestRefines ==
  ASSUME Inv,
         \/ \E w \in Workers : Rearm(w) \/ Drop(w)
         \/ \E w \in Workers, p \in Places : Keep(w, p)
         \/ \E p \in Places : Disconnect(p) \/ Cleanup(p)
         \/ Connect
         \/ ReturnNull
         \/ UNCHANGED vars
  PROVE  UNCHANGED RoleOf
<1> USE ConnectAssumption DEF TypeOK, ConnectTypeOK
<1>1. ASSUME NEW w \in Workers, Rearm(w)
      PROVE  UNCHANGED RoleOf
  <2>1. Accepting /\ Accepting'
    BY <1>1 DEF Inv, Rearm, UpdateAccept, AcceptSingle, Accepting
  <2> QED
    BY <1>1, <2>1, RestLemma DEF Rearm, UpdateAccept, IsNewbie, InPool
<1>2. ASSUME NEW w \in Workers, NEW p \in Places, Keep(w, p)
      PROVE  UNCHANGED RoleOf
  BY <1>2, RestLemma DEF Keep, IsNewbie, InPool, Accepting
<1>3. ASSUME NEW p \in Places, Disconnect(p) \/ Cleanup(p)
      PROVE  UNCHANGED RoleOf
  BY <1>3, RestLemma
     DEF Disconnect, Cleanup, connectVars, IsNewbie, InPool, Accepting
<1>4. ASSUME NEW w \in Workers, Drop(w)
      PROVE  UNCHANGED RoleOf
  BY <1>4, RestLemma DEF Drop, IsNewbie, InPool, Accepting
<1>5. CASE Connect
  BY <1>5, RestLemma DEF Connect, ClientArrives, IsNewbie, InPool, Accepting
<1>6. CASE ReturnNull
  <2>1. \A s \in Sockets : InPool(s)' <=> InPool(s)
    BY <1>6, PushInv DEF Inv, ReturnNull
  <2>2. \A s \in Sockets : InPool(s) \in BOOLEAN /\ InPool(s)' \in BOOLEAN
    BY DEF InPool
  <2> QED
    BY <1>6, <2>1, <2>2, RestLemma DEF ReturnNull, IsNewbie, Accepting
<1>7. CASE UNCHANGED vars
  BY <1>7, RestLemma DEF vars, connectVars, IsNewbie, InPool, Accepting
<1> QED
  BY <1>1, <1>2, <1>3, <1>4, <1>5, <1>6, <1>7

(* Sockets go round as SocketPool says, for any number of sockets and of   *)
(* workers: Update, Push and Pop neither lose, nor duplicate, nor skip.    *)
THEOREM CycleImplementsPool == Spec => ImplementsPool
<1>1. Inv /\ Inv' /\ [Next]_vars => [Pool!PoolNext]_RoleOf
  <2> SUFFICES ASSUME Inv, Inv', [Next]_vars
               PROVE  Pool!PoolNext \/ UNCHANGED RoleOf
    OBVIOUS
  <2>1. CASE UNCHANGED vars
    BY <2>1, RestRefines
  <2>2. ASSUME NEW w \in Workers, WorkerStep(w)
        PROVE  Pool!PoolNext \/ UNCHANGED RoleOf
    BY <2>2, DispatchRefines, PopRefines, RefuseRefines, RestRefines
       DEF WorkerStep
  <2>3. ASSUME NEW p \in Places, Disconnect(p) \/ Return(p) \/ Cleanup(p)
        PROVE  Pool!PoolNext \/ UNCHANGED RoleOf
    BY <2>3, ReturnRefines, RestRefines
  <2>4. CASE Connect \/ ReturnNull
    BY <2>4, RestRefines
  <2> QED
    BY <2>1, <2>2, <2>3, <2>4 DEF Next
<1> QED
  BY <1>1, InitRefines, CycleInvariant, PTL
     DEF Spec, ImplementsPool, Pool!PoolSpec
===============================================================================
