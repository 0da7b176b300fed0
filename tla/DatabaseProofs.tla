----------------------------- MODULE DatabaseProofs -----------------------------
(***************************************************************************)
(* What holds of DatabaseService for any number of workers and queries:    *)
(* its types, that the queue is never popped empty, and that no query is   *)
(* lost, repeated or overtaken.                                            *)
(***************************************************************************)
EXTENDS DatabaseService, SequenceTheorems, TLAPS

(* How many queries have left the queue.                                   *)
Gone == Len(executed) + (IF db = "execute" THEN 1 ELSE 0)

(* InOrder, position by position.                                          *)
Numbered ==
  /\ Gone + Len(myJobQueue) = pushed
  /\ \A i \in 1..Len(executed) : executed[i] = i
  /\ db = "execute" => job = Len(executed) + 1
  /\ \A i \in 1..Len(myJobQueue) : myJobQueue[i] = Gone + i

(* A worker that handles a login has a query that was pushed.              *)
Owned == \A w \in Workers : pc[w] # "idle" => query[w] \in 1..pushed

(* The inductive invariant.                                                *)
Inv == TypeOK /\ Owned /\ PopsQueued /\ Numbered

LEMMA InvInit == Init => Inv
<1> SUFFICES ASSUME Init PROVE Inv
  OBVIOUS
<1> USE DatabaseAssumption DEF Init, Queries, NoQuery
<1>1. TypeOK
  <2>1. <<>> \in Seq(Queries)
    OBVIOUS
  <2>2. /\ life \in [Queries -> {"none"}]
        /\ bound \in [Queries -> {{}}]
        /\ pc \in [Workers -> {"idle"}]
        /\ query \in [Workers -> {0}]
    OBVIOUS
  <2>3. rest \in [Queries -> {"nothing"}] /\ stop \in BOOLEAN /\ ended \in BOOLEAN
    OBVIOUS
  <2>4. /\ life \in [Queries -> {"none", "prepared", "executed", "freed"}]
        /\ bound \in [Queries -> SUBSET Columns]
        /\ pc \in [Workers -> {"idle", "bind1", "bind2"}]
        /\ query \in [Workers -> Queries \cup {NoQuery}]
        /\ rest \in [Queries -> Rests]
    BY <2>2, <2>3 DEF Rests
  <2> QED
    BY SMTT(30), <2>1, <2>3, <2>4 DEF TypeOK
<1>2. Owned /\ PopsQueued
  BY DEF Owned, PopsQueued
<1>3. Numbered
  BY DEF Numbered, Gone
<1> QED
  BY <1>1, <1>2, <1>3 DEF Inv

(* The steps of the workers.                                               *)
LEMMA WorkerKeeps ==
  ASSUME Inv, NEW w \in Workers, Worker(w)
  PROVE  Inv'
<1> USE DatabaseAssumption DEF Inv, Queries, NoQuery
<1>1. CASE PushJob(w)
  <2>1. pushed' \in Queries /\ pushed' = pushed + 1
    BY <1>1 DEF PushJob, TypeOK
  <2>2. /\ myJobQueue' = Append(myJobQueue, pushed')
        /\ myJobQueue' \in Seq(Queries)
        /\ Len(myJobQueue') = Len(myJobQueue) + 1
        /\ \A i \in 1..Len(myJobQueue') :
             myJobQueue'[i] = IF i <= Len(myJobQueue) THEN myJobQueue[i]
                              ELSE pushed'
    BY <1>1, <2>1 DEF PushJob, TypeOK
  <2>3. TypeOK'
    BY <1>1, <2>1, <2>2 DEF PushJob, TypeOK, dbVars
  <2>4. Numbered'
    <3>1. Len(myJobQueue) \in Nat /\ Len(executed) \in Nat
      BY DEF TypeOK
    <3>2. Gone' = Gone /\ Gone \in Nat
      BY <1>1, <3>1 DEF PushJob, Gone, dbVars
    <3>3. Gone + Len(myJobQueue) = pushed
      BY DEF Numbered
    <3>4. \A i \in 1..Len(myJobQueue') : myJobQueue'[i] = Gone' + i
      BY <2>1, <2>2, <3>1, <3>2, <3>3 DEF Numbered
    <3>5. Gone' + Len(myJobQueue') = pushed'
      BY <2>1, <2>2, <3>1, <3>2, <3>3
    <3> QED
      BY <1>1, <3>4, <3>5 DEF PushJob, Numbered, dbVars
  <2>5. PopsQueued'
    <3>1. Len(myJobQueue') # 0
      BY <2>2 DEF TypeOK
    <3> QED
      BY <3>1 DEF PopsQueued
  <2>6. Owned'
    BY <1>1, <2>1 DEF PushJob, Owned, TypeOK
  <2> QED
    BY <2>3, <2>4, <2>5, <2>6
<1>2. CASE PushThrows(w)
  <2>1. TypeOK'
    BY <1>2 DEF PushThrows, TypeOK, dbVars, workerVars
  <2> QED
    BY <1>2, <2>1 DEF PushThrows, Owned, PopsQueued, Numbered, Gone,
                      dbVars, workerVars
<1>3. CASE Bind(w)
  <2>1. Column(w) \in Columns
    BY DEF Column, Columns
  <2>2. TypeOK'
    BY <1>3, <2>1 DEF Bind, Binding, TypeOK, dbVars
  <2>3. Owned'
    BY <1>3 DEF Bind, Binding, Owned, TypeOK
  <2> QED
    BY <1>3, <2>2, <2>3 DEF Bind, PopsQueued, Numbered, Gone, dbVars
<1>4. CASE BindFreed(w)
  <2>1. Column(w) \in Columns
    BY DEF Column, Columns
  <2>2. ended' \in BOOLEAN /\ bound' \in [Queries -> SUBSET Columns]
    <3>1. bound \in [Queries -> SUBSET Columns] /\ ended \in BOOLEAN
      BY DEF TypeOK
    <3>2. ASSUME \E q \in Queries :
                   bound' = [bound EXCEPT ![q] = @ \cup {Column(w)}]
          PROVE  bound' \in [Queries -> SUBSET Columns]
      <4>1. PICK q \in Queries :
              bound' = [bound EXCEPT ![q] = @ \cup {Column(w)}]
        BY <3>2
      <4>2. bound[q] \cup {Column(w)} \in SUBSET Columns
        BY <2>1, <3>1
      <4> QED
        BY <3>1, <4>1, <4>2
    <3>3. ended' \in BOOLEAN
      BY <1>4, <3>1 DEF BindFreed
    <3> QED
      BY <1>4, <3>1, <3>2, <3>3 DEF BindFreed
  <2>3. TypeOK'
    BY <1>4, <2>2 DEF BindFreed, Binding, TypeOK, dbVars
  <2>4. Owned'
    BY <1>4 DEF BindFreed, Binding, Owned, TypeOK
  <2> QED
    BY <1>4, <2>3, <2>4 DEF BindFreed, PopsQueued, Numbered, Gone, dbVars
<1> QED
  BY <1>1, <1>2, <1>3, <1>4 DEF Worker

(* The steps of the database thread.                                       *)
LEMMA DatabaseKeeps ==
  ASSUME Inv, DBaseWorker
  PROVE  Inv'
<1> USE DatabaseAssumption DEF Inv, Queries, NoQuery
<1>1. CASE Check
  <2>1. TypeOK'
    BY <1>1 DEF Check, TypeOK, workerVars
  <2> QED
    BY <1>1, <2>1 DEF Check, Owned, PopsQueued, Numbered, Gone,
                      workerVars
<1>2. CASE PopJob
  <2>1. /\ myJobQueue' \in Seq(Queries)
        /\ Len(myJobQueue') = Len(myJobQueue) - 1
        /\ \A i \in 1..Len(myJobQueue') : myJobQueue'[i] = myJobQueue[i + 1]
        /\ job' = myJobQueue[1] /\ job' \in Queries
        /\ Len(myJobQueue) >= 1
    BY <1>2 DEF PopJob, TypeOK
  <2>2. TypeOK'
    BY <1>2, <2>1 DEF PopJob, TypeOK, workerVars
  <2>3. Numbered'
    <3>1. Len(myJobQueue) \in Nat /\ Len(executed) \in Nat
      BY DEF TypeOK
    <3>2. Gone = Len(executed) /\ Gone' = Len(executed) + 1
      BY <1>2, <3>1 DEF PopJob, Gone
    <3> QED
      BY <1>2, <2>1, <3>1, <3>2 DEF PopJob, Numbered
  <2>4. Owned'
    BY <1>2 DEF PopJob, Owned, workerVars
  <2> QED
    BY <1>2, <2>2, <2>3, <2>4 DEF PopJob, PopsQueued
<1>3. CASE Execute
  <2>1. Len(myJobQueue) \in Nat /\ Len(executed) \in Nat
    BY DEF TypeOK
  <2>2. job \in Queries /\ job = Len(executed) + 1 /\ job <= pushed
    BY <1>3, <2>1 DEF Execute, TypeOK, Numbered, Gone
  <2>3. /\ executed' \in Seq(Queries)
        /\ Len(executed') = Len(executed) + 1
        /\ \A i \in 1..Len(executed') :
             executed'[i] = IF i <= Len(executed) THEN executed[i] ELSE job
    BY <1>3, <2>2 DEF Execute, TypeOK
  <2>4. TypeOK'
    BY <1>3, <2>2, <2>3 DEF Execute, TypeOK, workerVars
  <2>5. Numbered'
    BY <1>3, <2>1, <2>2, <2>3 DEF Execute, Numbered, Gone
  <2>6. Owned'
    BY <1>3, <2>2 DEF Execute, Owned, TypeOK, workerVars
  <2> QED
    BY <1>3, <2>2, <2>4, <2>5, <2>6 DEF Execute, PopsQueued
<1>4. CASE Fetch
  <2>1. rest' \in [Queries -> Rests]
    <3>1. PICK code \in FetchCodes[rest[job]] :
            rest' = [rest EXCEPT ![job] =
                       IF code \in {"row", "info", "no data"} THEN "nothing"
                                                             ELSE "failure"]
      BY <1>4 DEF Fetch
    <3> QED
      BY <3>1 DEF TypeOK, Rests
  <2>2. db' \in {"fetch", "free"}
    BY <1>4 DEF Fetch
  <2>3. TypeOK'
    BY <1>4, <2>1, <2>2 DEF Fetch, TypeOK, workerVars
  <2> QED
    BY <1>4, <2>2, <2>3 DEF Fetch, Owned, PopsQueued, Numbered, Gone,
                            workerVars
<1>5. CASE Free
  <2>1. TypeOK'
    BY <1>5 DEF Free, TypeOK, workerVars
  <2> QED
    BY <1>5, <2>1 DEF Free, Owned, PopsQueued, Numbered, Gone, workerVars
<1> QED
  BY <1>1, <1>2, <1>3, <1>4, <1>5 DEF DBaseWorker

LEMMA InvNext == Inv /\ [Next]_vars => Inv'
<1> SUFFICES ASSUME Inv, [Next]_vars PROVE Inv'
  OBVIOUS
<1> USE DEF Inv
<1>1. CASE Release
  <2>1. TypeOK'
    BY <1>1 DEF Release, TypeOK, dbVars, workerVars
  <2> QED
    BY <1>1, <2>1 DEF Release, Owned, PopsQueued, Numbered, Gone, dbVars,
                      workerVars
<1>2. CASE UNCHANGED vars
  BY <1>2 DEF vars, TypeOK, Owned, PopsQueued, Numbered, Gone, dbVars,
              workerVars
<1> HIDE DEF Inv
<1> QED
  BY <1>1, <1>2, WorkerKeeps, DatabaseKeeps DEF Next

(* The numbering gives the sequences of InOrder.                           *)
LEMMA NumberedInOrder == Inv => InOrder
<1> SUFFICES ASSUME Inv PROVE InOrder
  OBVIOUS
<1> DEFINE held  == IF db = "execute" THEN <<job>> ELSE <<>>
           start == executed \o held
           all   == start \o myJobQueue
<1>1. /\ executed \in Seq(Int) /\ myJobQueue \in Seq(Int)
      /\ Len(executed) \in Nat /\ Len(myJobQueue) \in Nat
      /\ pushed \in Nat /\ job \in Int
  BY DatabaseAssumption DEF Inv, TypeOK, Queries, NoQuery
<1>2. /\ held \in Seq(Int)
      /\ Len(held) = IF db = "execute" THEN 1 ELSE 0
      /\ \A i \in 1..Len(held) : held[i] = Len(executed) + i
  BY <1>1 DEF Inv, Numbered
<1> HIDE DEF held
<1>3. /\ start \in Seq(Int)
      /\ Len(start) = Gone
      /\ \A i \in 1..Gone : start[i] = IF i <= Len(executed) THEN executed[i]
                                       ELSE held[i - Len(executed)]
  <2>1. start = executed \o held
    OBVIOUS
  <2>2. Gone = Len(executed) + Len(held)
    BY <1>2 DEF Gone
  <2> QED
    BY <1>1, <1>2, <2>1, <2>2, ConcatProperties
<1>4. \A i \in 1..Gone : start[i] = i
  BY <1>1, <1>2, <1>3 DEF Inv, Numbered, Gone
<1> HIDE DEF start
<1>5. Gone \in Nat /\ Gone + Len(myJobQueue) = pushed
  BY <1>1 DEF Inv, Numbered, Gone
<1>6. /\ all \in Seq(Int)
      /\ Len(all) = pushed
      /\ \A i \in 1..pushed : all[i] = IF i <= Gone THEN start[i]
                                       ELSE myJobQueue[i - Gone]
  BY <1>1, <1>3, <1>5, ConcatProperties
<1>7. \A i \in 1..pushed : all[i] = i
  <2>1. \A i \in 1..Len(myJobQueue) : myJobQueue[i] = Gone + i
    BY DEF Inv, Numbered
  <2> HIDE DEF all
  <2>2. ASSUME NEW i \in 1..pushed PROVE all[i] = i
    <3>1. CASE i <= Gone
      BY <1>4, <1>5, <1>6, <3>1
    <3>2. CASE ~ (i <= Gone)
      <4>1. i - Gone \in 1..Len(myJobQueue)
        BY <1>1, <1>5, <3>2
      <4>2. myJobQueue[i - Gone] = Gone + (i - Gone)
        BY <2>1, <4>1
      <4> QED
        BY <1>5, <1>6, <3>2, <4>2
    <3> QED
      BY <3>1, <3>2
  <2> QED
    BY <2>2
<1>8. /\ [q \in 1..pushed |-> q] \in Seq(Int)
      /\ Len([q \in 1..pushed |-> q]) = pushed
  BY <1>1
<1> HIDE DEF all
<1>9. all = [q \in 1..pushed |-> q]
  BY <1>6, <1>7, <1>8, SeqEqual
<1> QED
  BY <1>9 DEF InOrder, all, start, held

-------------------------------------------------------------------------------

(* The inductive invariant holds of every reachable state.                 *)
THEOREM DatabaseInvariant == Spec => []Inv
BY InvInit, InvNext, PTL DEF Spec

(* The variables of the service keep their types.                          *)
THEOREM DatabaseTyping == Spec => []TypeOK
<1>1. Inv => TypeOK
  BY DEF Inv
<1> QED
  BY <1>1, DatabaseInvariant, PTL

(* PopJob finds a query, although IsEmpty was read without the lock.       *)
THEOREM DatabasePopsQueued == Spec => []PopsQueued
<1>1. Inv => PopsQueued
  BY DEF Inv
<1> QED
  BY <1>1, DatabaseInvariant, PTL

(* No query is lost, repeated or overtaken between PushJob and Execute.    *)
THEOREM DatabaseInOrder == Spec => []InOrder
BY NumberedInOrder, DatabaseInvariant, PTL
===============================================================================
