----------------------------- MODULE DatabaseService -----------------------------
(***************************************************************************)
(* The queue of database queries (DatabaseService.cpp, DatabaseQuery.cpp)  *)
(* between the workers that handle logins and the one database thread.     *)
(* JobBarrier is held within one step by whoever pushes or pops; the       *)
(* emptiness of the queue is read without it.  A worker keeps a reference  *)
(* to the query it has pushed, without owning it.                          *)
(***************************************************************************)
EXTENDS Integers, Sequences

CONSTANTS Workers,      (* the threads that handle logins                  *)
          MaxQueries    (* bound: queries in all                           *)

ASSUME DatabaseAssumption == MaxQueries \in Nat

VARIABLES
  myJobQueue,
  pushed,      (* how many queries were pushed: they are numbered so       *)
  life,        (* of each query's statement handle                         *)
  bound,       (* its columns that are bound to a place for the result     *)
  rest,        (* what SQLFetch still finds for it                         *)
  pc, query,   (* the login each worker handles, and its query             *)
  db, job,     (* the database thread, and the query it holds              *)
  stop,        (* was the stop of the threads requested?                   *)
  ended,       (* an exception or a wild access has ended the program      *)
  executed     (* history: the queries executed, in order                  *)

dbVars     == <<db, job, executed>>
workerVars == <<pc, query>>
vars == <<myJobQueue, pushed, life, bound, rest, stop, ended, dbVars,
          workerVars>>

Queries == 1..MaxQueries
NoQuery == 0
Columns == 1..2
Rests   == {"a row", "nothing", "failure"}

TypeOK ==
  /\ myJobQueue \in Seq(Queries)
  /\ pushed   \in 0..MaxQueries
  /\ life     \in [Queries -> {"none", "prepared", "executed", "freed"}]
  /\ bound    \in [Queries -> SUBSET Columns]
  /\ rest     \in [Queries -> Rests]
  /\ pc       \in [Workers -> {"idle", "bind1", "bind2"}]
  /\ query    \in [Workers -> Queries \cup {NoQuery}]
  /\ db       \in {"check", "pop", "execute", "fetch", "free", "stopped"}
  /\ job      \in Queries \cup {NoQuery}
  /\ stop     \in BOOLEAN
  /\ ended    \in BOOLEAN
  /\ executed \in Seq(Queries)

Init ==
  /\ myJobQueue = <<>> /\ pushed = 0
  /\ life  = [q \in Queries |-> "none"]
  /\ bound = [q \in Queries |-> {}]
  /\ rest  = [q \in Queries |-> "nothing"]
  /\ pc    = [w \in Workers |-> "idle"]
  /\ query = [w \in Workers |-> NoQuery]
  /\ db = "check" /\ job = NoQuery
  /\ stop = FALSE /\ ended = FALSE
  /\ executed = <<>>

-------------------------------------------------------------------------------
(* A worker: the CS_SIGNIN case of ProceedRecv.                            *)

(* DBFindPlayer: the query is prepared and pushed, under JobBarrier.       *)
PushJob(w) ==
  /\ ~ ended /\ pc[w] = "idle" /\ pushed < MaxQueries
  /\ pushed' = pushed + 1
  /\ myJobQueue' = Append(myJobQueue, pushed')
  /\ life'  = [life EXCEPT ![pushed'] = "prepared"]
  /\ query' = [query EXCEPT ![w] = pushed']
  /\ pc'    = [pc EXCEPT ![w] = "bind1"]
  /\ UNCHANGED <<bound, rest, stop, ended, dbVars>>

(* It cannot be prepared: CreateQuery throws, and nothing catches.         *)
PushThrows(w) ==
  /\ ~ ended /\ pc[w] = "idle" /\ pushed < MaxQueries
  /\ ended' = TRUE
  /\ UNCHANGED <<myJobQueue, pushed, life, bound, rest, stop, dbVars,
                 workerVars>>

(* Mutant: the columns are counted from zero.                              *)
ColumnFromZero(w) == IF pc[w] = "bind1" THEN 0 ELSE 1

Column(w) == IF pc[w] = "bind1" THEN 1 ELSE 2

Binding(w) ==
  /\ pc[w] \in {"bind1", "bind2"}
  /\ pc' = [pc EXCEPT ![w] = IF @ = "bind1" THEN "bind2" ELSE "idle"]
  /\ query' = [query EXCEPT ![w] = IF pc[w] = "bind1" THEN @ ELSE NoQuery]

(* Two columns are bound, one call each, to the query already queued; then *)
(* the login is answered, whatever the query finds.                        *)
Bind(w) ==
  LET q == query[w] IN
  /\ ~ ended /\ Binding(w) /\ life[q] # "freed"
  /\ bound' = [bound EXCEPT ![q] = @ \cup {Column(w)}]
  /\ UNCHANGED <<myJobQueue, pushed, life, rest, stop, ended, dbVars>>

(* The database thread is done with the query and has freed it: binding    *)
(* fails, unheeded, or meets a query that lies there since, or ends the    *)
(* program.                                                                *)
BindFreed(w) ==
  /\ ~ ended /\ Binding(w) /\ life[query[w]] = "freed"
  /\ \/ UNCHANGED <<ended, bound>>
     \/ /\ \E q \in Queries :
             /\ life[q] \in {"prepared", "executed"}
             /\ bound' = [bound EXCEPT ![q] = @ \cup {Column(w)}]
        /\ UNCHANGED ended
     \/ ended' = TRUE /\ UNCHANGED bound
  /\ UNCHANGED <<myJobQueue, pushed, life, rest, stop, dbVars>>

-------------------------------------------------------------------------------
(* The database thread: DBaseWorker.                                       *)

(* Mutant: the thread does not look whether the queue is empty.            *)
CheckBlindly ==
  /\ ~ ended /\ db = "check"
  /\ db' = IF stop THEN "stopped" ELSE "pop"
  /\ UNCHANGED <<myJobQueue, pushed, life, bound, rest, stop, ended, job,
                 executed, workerVars>>

(* Stop, go round again, or go on to a query.                              *)
Check ==
  /\ ~ ended /\ db = "check"
  /\ db' = IF stop THEN "stopped"
           ELSE IF myJobQueue = <<>> THEN "check" ELSE "pop"
  /\ UNCHANGED <<myJobQueue, pushed, life, bound, rest, stop, ended, job,
                 executed, workerVars>>

(* Mutant: the front is read and not popped.                               *)
PopJobPeek ==
  /\ ~ ended /\ db = "pop" /\ myJobQueue # <<>>
  /\ job' = Head(myJobQueue)
  /\ db' = "execute"
  /\ UNCHANGED <<myJobQueue, pushed, life, bound, rest, stop, ended,
                 executed, workerVars>>

(* The front of the queue, under JobBarrier.  On an empty queue that is    *)
(* undefined; PopsQueued says that it does not come to that.               *)
PopJob ==
  /\ ~ ended /\ db = "pop" /\ myJobQueue # <<>>
  /\ job' = Head(myJobQueue)
  /\ myJobQueue' = Tail(myJobQueue)
  /\ db' = "execute"
  /\ UNCHANGED <<pushed, life, bound, rest, stop, ended, executed,
                 workerVars>>

(* It may find nothing, or fail; its result is not looked at.  Bound: a    *)
(* query finds one row at most.                                            *)
Execute ==
  /\ ~ ended /\ db = "execute"
  /\ life' = [life EXCEPT ![job] = "executed"]
  /\ \E found \in Rests : rest' = [rest EXCEPT ![job] = found]
  /\ executed' = Append(executed, job)
  /\ db' = "fetch"
  /\ UNCHANGED <<myJobQueue, pushed, bound, stop, ended, job, workerVars>>

(* What SQLFetch returns.  A statement that failed fails again.            *)
FetchCodes ==
  [r \in Rests |-> CASE r = "a row"   -> {"row", "info", "error"}
                     [] r = "nothing" -> {"no data"}
                     [] r = "failure" -> {"error", "invalid"}]

(* Mutant: only the end of the data ends the loop.                         *)
FetchesUntil == {"no data"}

(* Diagnostics, an invalid handle and the end of the data end the loop.    *)
FetchEnds == {"info", "error", "invalid", "no data"}

(* One turn of Fetch's loop.                                               *)
Fetch ==
  /\ ~ ended /\ db = "fetch"
  /\ \E code \in FetchCodes[rest[job]] :
       /\ rest' = [rest EXCEPT ![job] =
                     IF code \in {"row", "info", "no data"} THEN "nothing"
                                                           ELSE "failure"]
       /\ db' = IF code \in FetchEnds THEN "free" ELSE "fetch"
  /\ UNCHANGED <<myJobQueue, pushed, life, bound, stop, ended, job, executed,
                 workerVars>>

(* The last owner of the query goes out of scope.                          *)
Free ==
  /\ ~ ended /\ db = "free"
  /\ life' = [life EXCEPT ![job] = "freed"]
  /\ job' = NoQuery
  /\ db' = "check"
  /\ UNCHANGED <<myJobQueue, pushed, bound, rest, stop, ended, executed,
                 workerVars>>

(* Framework::Release requests the stop.                                   *)
Release ==
  /\ ~ ended /\ ~ stop
  /\ stop' = TRUE
  /\ UNCHANGED <<myJobQueue, pushed, life, bound, rest, ended, dbVars,
                 workerVars>>

DBaseWorker ==
  Check \/ PopJob \/ Execute \/ Fetch \/ Free

Worker(w) ==
  PushJob(w) \/ PushThrows(w) \/ Bind(w) \/ BindFreed(w)

Next == DBaseWorker \/ (\E w \in Workers : Worker(w)) \/ Release

Spec == Init /\ [][Next]_vars

(* The database thread runs.                                               *)
FairSpec == Spec /\ WF_vars(DBaseWorker)

-------------------------------------------------------------------------------

(* The queue is not empty when it is popped, although that was seen        *)
(* without the lock, some time before (DBaseWorker, IsEmpty, PopJob).      *)
PopsQueued == db = "pop" => myJobQueue # <<>>

(* Queries are executed once each, in the order they were pushed, and none *)
(* is lost on the way: executed, held or queued (PushJob, PopJob).         *)
InOrder ==
  LET held == IF db = "execute" THEN <<job>> ELSE <<>> IN
  executed \o held \o myJobQueue = [q \in 1..pushed |-> q]

(* Every query is executed and freed in the end, unless the threads are    *)
(* stopped, whatever fetching reports (DBaseWorker, Fetch).                *)
EveryQueryFreed ==
  ([] (~ stop /\ ~ ended)) =>
    \A q \in Queries : (life[q] = "prepared") ~> (life[q] = "freed")
===============================================================================
