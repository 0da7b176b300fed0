------------------------------ MODULE Transmission ------------------------------
(***************************************************************************)
(* How the server sends (Framework::AcceptPlayer, SendLoginResult,         *)
(* ProceedSent, Session::BeginSend and Send, CreateTicket): each packet    *)
(* has a context on the heap, which the kernel has while a send of it is   *)
(* outstanding, and which the worker that takes the last completion        *)
(* deletes.  A send may complete with part of the bytes; the rest is sent  *)
(* through the session the completion key names.                           *)
(*                                                                         *)
(* The kernel and the clients are external.  Sessions are their socket     *)
(* only; which handler runs when is Framework's.                           *)
(***************************************************************************)
EXTENDS Integers, Sequences

CONSTANTS Connections, NULL,
          Workers,
          MaxUsers,     (* the sessions                                    *)
          Lengths,      (* of the packets the server sends                 *)
          MaxSends      (* bound: packets sent in all                      *)

ASSUME TransmissionAssumption ==
  /\ NULL \notin Connections
  /\ MaxUsers \in Nat \ {0}
  /\ Lengths \subseteq Nat \ {0}
  /\ MaxSends \in Nat

Places      == 0..MaxUsers - 1
Contexts    == 1..MaxSends
Completions == [context : Contexts, ok : BOOLEAN, bytes : Nat]

ASSUME NullAssumption == NULL \notin Completions

VARIABLES
  mySocket,      (* of each session: its connection                        *)
  link,          (* of each connection: "new", "up", "down"                *)
  heap,          (* of each context: "none", "live", "freed"               *)
  length,        (* of the packet of each context                          *)
  buf, len,      (* its WSABUF: how far the packet was sent, what is left  *)
  sends,         (* of each connection: the sends outstanding, in order    *)
  port,          (* completions of sends, first in first out               *)
  job,           (* of each worker: the completion it handles              *)
  wire,          (* of each connection: the packets of the pieces that     *)
                 (* went out on it                                         *)
  out,           (* of each packet: its bytes, as they went out anywhere   *)
  target,        (* history: the connection a packet was sent on first     *)
  greeted,       (* history: the connection a server status is for; NULL   *)
                 (* for other packets                                      *)
  lost,          (* history: contexts whose send failed or was refused     *)
  cut            (* history: contexts whose send completed with only a part*)

contextVars == <<heap, length, buf, len>>
netVars     == <<wire, out>>
historyVars == <<target, greeted, lost, cut>>
vars == <<mySocket, link, contextVars, sends, port, job, netVars, historyVars>>

TypeOK ==
  /\ mySocket \in [Places -> Connections \cup {NULL}]
  /\ link     \in [Connections -> {"new", "up", "down"}]
  /\ heap     \in [Contexts -> {"none", "live", "freed"}]
  /\ length   \in [Contexts -> Lengths \cup {0}]
  /\ buf      \in [Contexts -> Nat]
  /\ len      \in [Contexts -> Nat]
  /\ \A k \in Contexts : buf[k] + len[k] = length[k]
  /\ sends    \in [Connections -> Seq(Contexts)]
  /\ port     \in Seq(Completions)
  /\ job      \in [Workers -> Completions \cup {NULL}]
  /\ wire     \in [Connections -> Seq(Contexts)]
  /\ out      \in [Contexts -> Seq(Nat)]
  /\ target   \in [Contexts -> Connections \cup {NULL}]
  /\ greeted  \in [Contexts -> Connections \cup {NULL}]
  /\ lost     \subseteq Contexts
  /\ cut      \subseteq Contexts

(* Awake links every socket with the same key, USERS_ID_BEGIN.             *)
Key == 0

Init ==
  /\ mySocket = [p \in Places |-> NULL]
  /\ link     = [c \in Connections |-> "new"]
  /\ heap     = [k \in Contexts |-> "none"]
  /\ length   = [k \in Contexts |-> 0]
  /\ buf      = [k \in Contexts |-> 0]
  /\ len      = [k \in Contexts |-> 0]
  /\ sends    = [c \in Connections |-> <<>>]
  /\ port     = <<>>
  /\ job      = [w \in Workers |-> NULL]
  /\ wire     = [c \in Connections |-> <<>>]
  /\ out      = [k \in Contexts |-> <<>>]
  /\ target   = [k \in Contexts |-> NULL]
  /\ greeted  = [k \in Contexts |-> NULL]
  /\ lost     = {}
  /\ cut      = {}

-------------------------------------------------------------------------------

(* WSASend of context k on connection c.  Nobody looks at its result: when *)
(* it fails no completion follows, and the context is forgotten.           *)
WSASend(k, c, up) ==
  IF up
  THEN /\ sends' = [sends EXCEPT ![c] = Append(@, k)]
       /\ UNCHANGED lost
  ELSE /\ lost' = lost \cup {k}
       /\ UNCHANGED sends

IsUp(c) == c # NULL /\ link[c] = "up"

(* CreateTicket: the contexts are taken in turn; c is where the packet is  *)
(* sent now.                                                               *)
CreateTicket(k, n, c) ==
  /\ heap[k] = "none" /\ \A j \in 1..k - 1 : heap[j] # "none"
  /\ heap'   = [heap EXCEPT ![k] = "live"]
  /\ length' = [length EXCEPT ![k] = n]
  /\ buf'    = [buf EXCEPT ![k] = 0]
  /\ len'    = [len EXCEPT ![k] = n]
  /\ target' = [target EXCEPT ![k] = c]

(* Mutant: the server status goes to the session of the key.               *)
AcceptByKey(p, c, k, n) ==
  /\ link[c] = "new"
  /\ mySocket' = [mySocket EXCEPT ![p] = c]
  /\ \E state \in {"up", "down"} : link' = [link EXCEPT ![c] = state]
  /\ greeted' = [greeted EXCEPT ![k] = c]
  /\ LET d == mySocket'[Key] IN
     CreateTicket(k, n, d) /\ WSASend(k, d, d # NULL /\ link'[d] = "up")
  /\ UNCHANGED <<port, job, netVars, cut>>

(* AcceptPlayer: a session is given the connection, whose client may have  *)
(* left already, and the server status is sent.  The session need not be   *)
(* free: its place is looked for before its lock is taken.                 *)
Accept(p, c, k, n) ==
  /\ link[c] = "new"
  /\ mySocket' = [mySocket EXCEPT ![p] = c]
  /\ \E state \in {"up", "down"} : link' = [link EXCEPT ![c] = state]
  /\ greeted' = [greeted EXCEPT ![k] = c]
  /\ CreateTicket(k, n, c)
  /\ WSASend(k, c, link'[c] = "up")
  /\ UNCHANGED <<port, job, netVars, cut>>

(* A request of any connection is answered (SendLoginResult,               *)
(* CS_REQUEST_VERSION) on the session its receive was handled by: the one  *)
(* of the key, whoever asked.                                              *)
Answer(k, n) ==
  LET c == mySocket[Key] IN
  /\ \E d \in Connections : link[d] # "new"
  /\ CreateTicket(k, n, c)
  /\ WSASend(k, c, IsUp(c))
  /\ UNCHANGED <<mySocket, link, port, job, netVars, greeted, cut>>

(* Worker: a completion is taken from the port.                            *)
Dequeue(w) ==
  /\ job[w] = NULL /\ port # <<>>
  /\ job'  = [job EXCEPT ![w] = Head(port)]
  /\ port' = Tail(port)
  /\ UNCHANGED <<mySocket, link, contextVars, sends, netVars, historyVars>>

Handling(w, ok) == job[w] # NULL /\ job[w].ok = ok

Left(w) == len[job[w].context] - job[w].bytes

(* Mutants of the rest of a send: the context is deleted nevertheless;     *)
(* the bytes that went out are sent again; the length is not reduced.      *)
SendRestAndDelete(w) ==
  LET k == job[w].context
      c == mySocket[Key]
  IN
  /\ Handling(w, TRUE) /\ Left(w) > 0
  /\ buf'  = [buf EXCEPT ![k] = @ + job[w].bytes]
  /\ len'  = [len EXCEPT ![k] = @ - job[w].bytes]
  /\ heap' = [heap EXCEPT ![k] = "freed"]
  /\ WSASend(k, c, IsUp(c))
  /\ job'  = [job EXCEPT ![w] = NULL]
  /\ UNCHANGED <<mySocket, link, length, port, netVars, target,
                 greeted, cut>>

SendWhole(w) ==
  LET k == job[w].context
      c == mySocket[Key]
  IN
  /\ Handling(w, TRUE) /\ Left(w) > 0
  /\ WSASend(k, c, IsUp(c))
  /\ job'  = [job EXCEPT ![w] = NULL]
  /\ UNCHANGED <<mySocket, link, contextVars, port, netVars, target,
                 greeted, cut>>

SendRestTooLong(w) ==
  LET k == job[w].context
      c == mySocket[Key]
  IN
  /\ Handling(w, TRUE) /\ Left(w) > 0
  /\ buf'  = [buf EXCEPT ![k] = @ + job[w].bytes]
  /\ WSASend(k, c, IsUp(c))
  /\ job'  = [job EXCEPT ![w] = NULL]
  /\ UNCHANGED <<mySocket, link, heap, length, len, port, netVars, target,
                 greeted, cut>>

(* ProceedSent: what is left is sent through the session of the key, on    *)
(* the connection that session has now (Session::Send).                    *)
SendRest(w) ==
  LET k == job[w].context
      c == mySocket[Key]
  IN
  /\ Handling(w, TRUE) /\ Left(w) > 0
  /\ buf'  = [buf EXCEPT ![k] = @ + job[w].bytes]
  /\ len'  = [len EXCEPT ![k] = @ - job[w].bytes]
  /\ WSASend(k, c, IsUp(c))
  /\ job'  = [job EXCEPT ![w] = NULL]
  /\ UNCHANGED <<mySocket, link, heap, length, port, netVars, target,
                 greeted, cut>>

(* Mutant: the context is not deleted.                                     *)
SentAndKept(w) ==
  /\ Handling(w, TRUE) /\ Left(w) = 0
  /\ job'  = [job EXCEPT ![w] = NULL]
  /\ UNCHANGED <<mySocket, link, contextVars, sends, port, netVars, historyVars>>

(* "Sent": the context is deleted.                                         *)
Sent(w) ==
  /\ Handling(w, TRUE) /\ Left(w) = 0
  /\ heap' = [heap EXCEPT ![job[w].context] = "freed"]
  /\ job'  = [job EXCEPT ![w] = NULL]
  /\ UNCHANGED <<mySocket, link, length, buf, len, sends, port, netVars,
                 historyVars>>

(* RouteFailed: a failed send is reported and forgotten.                   *)
SendFailed(w) ==
  /\ Handling(w, FALSE)
  /\ lost' = lost \cup {job[w].context}
  /\ job'  = [job EXCEPT ![w] = NULL]
  /\ UNCHANGED <<mySocket, link, contextVars, sends, port, netVars, target,
                 greeted, cut>>

(* Session::Cleanup, by ProceedDispose or CS_DISPOSE: of the session the   *)
(* key names, some time after a connection ended.                          *)
Cleanup ==
  /\ \E c \in Connections : link[c] = "down"
  /\ mySocket[Key] # NULL
  /\ mySocket' = [mySocket EXCEPT ![Key] = NULL]
  /\ UNCHANGED <<link, contextVars, sends, port, job, netVars, historyVars>>

-------------------------------------------------------------------------------
(* The kernel and the clients.                                             *)

(* n bytes of the first send outstanding go out, and it completes.         *)
Transmit(c, n) ==
  LET k == Head(sends[c]) IN
  /\ link[c] = "up" /\ sends[c] # <<>>
  /\ n <= len[k]
  /\ sends' = [sends EXCEPT ![c] = Tail(@)]
  /\ port'  = Append(port, [context |-> k, ok |-> TRUE, bytes |-> n])
  /\ wire'  = [wire EXCEPT ![c] = Append(@, k)]
  /\ out'   = [out EXCEPT ![k] = @ \o [i \in 1..n |-> buf[k] + i - 1]]
  /\ cut'   = IF n < len[k] THEN cut \cup {k} ELSE cut
  /\ UNCHANGED <<mySocket, link, contextVars, job, target, greeted,
                 lost>>

(* The connection ended: the sends outstanding on it fail.                 *)
Abort(c) ==
  /\ link[c] = "down" /\ sends[c] # <<>>
  /\ sends' = [sends EXCEPT ![c] = Tail(@)]
  /\ port'  = Append(port, [context |-> Head(sends[c]), ok |-> FALSE,
                            bytes |-> 0])
  /\ UNCHANGED <<mySocket, link, contextVars, job, netVars, historyVars>>

(* The client leaves, or the server disconnects.                           *)
HangUp(c) ==
  /\ link[c] = "up"
  /\ link' = [link EXCEPT ![c] = "down"]
  /\ UNCHANGED <<mySocket, contextVars, sends, port, job, netVars, historyVars>>

-------------------------------------------------------------------------------
WorkerStep(w) == Dequeue(w) \/ SendRest(w) \/ Sent(w) \/ SendFailed(w)

KernelStep(c) ==
  \/ Abort(c)
  \/ sends[c] # <<>> /\ \E n \in 1..len[Head(sends[c])] : Transmit(c, n)

Next ==
  \/ \E k \in Contexts, n \in Lengths :
       \/ \E p \in Places, c \in Connections : Accept(p, c, k, n)
       \/ Answer(k, n)
  \/ \E w \in Workers : WorkerStep(w)
  \/ Cleanup
  \/ \E c \in Connections : HangUp(c) \/ KernelStep(c)

Spec == Init /\ [][Next]_vars

(* Worker threads run, and the kernel sends what it can: a completion of a *)
(* send has at least a byte.  Nobody else must do anything.                *)
FairSpec ==
  /\ Spec
  /\ \A w \in Workers : WF_vars(WorkerStep(w))
  /\ \A c \in Connections : WF_vars(KernelStep(c))

-------------------------------------------------------------------------------

Busy == {w \in Workers : job[w] # NULL}

(* Somebody has context k: the kernel, the port, or a worker.              *)
InKernel(k) == \E c \in Connections : \E i \in 1..Len(sends[c]) :
                 sends[c][i] = k
InPort(k)   == \E i \in 1..Len(port) : port[i].context = k
AtWorker(k) == \E w \in Busy : job[w].context = k

(* Each context is deleted once, and never while the kernel or another     *)
(* worker has it; and as long as its sends succeed it is never forgotten   *)
(* (ProceedSent): a context that is live, and not lost, is in one place.   *)
OneHolder ==
  /\ \A c, d \in Connections :
       \A i \in 1..Len(sends[c]), j \in 1..Len(sends[d]) :
         sends[c][i] = sends[d][j] => c = d /\ i = j
  /\ \A i, j \in 1..Len(port) : port[i].context = port[j].context => i = j
  /\ \A v, w \in Busy : job[v].context = job[w].context => v = w
  /\ \A k \in Contexts :
       /\ ~ (InKernel(k) /\ InPort(k))
       /\ ~ (InKernel(k) /\ AtWorker(k))
       /\ ~ (InPort(k) /\ AtWorker(k))
       /\ InKernel(k) \/ InPort(k) \/ AtWorker(k)
            <=> heap[k] = "live" /\ k \notin lost

(* A packet that is not cut goes out on the connection it was first sent   *)
(* on, in one piece, behind all of those sent there before and before all  *)
(* of those sent there later.                                              *)
InOrder ==
  \A c \in Connections : \A i \in 1..Len(wire[c]) :
    LET k == wire[c][i]
        Before(j) == \E h \in 1..i - 1 : wire[c][h] = j
    IN
    k \notin cut =>
      /\ target[k] = c
      /\ \A j \in Contexts : target[j] = c => (j < k <=> Before(j))

(* A packet that is not cut goes out whole and in order, and the server    *)
(* status goes to the client that was accepted, whatever session it was    *)
(* given (AcceptPlayer, BeginSend).  An answer goes to the client of the   *)
(* session of the key, which need not be the one that asked: nothing is    *)
(* claimed of it (SendLoginResult).                                        *)
Whole ==
  /\ InOrder
  /\ \A c \in Connections : \A i \in 1..Len(wire[c]) :
       LET k == wire[c][i] IN
       k \notin cut /\ greeted[k] # NULL => greeted[k] = c

(* Every context is deleted in the end, or its send failed.                *)
EverySendEnds ==
  \A k \in Contexts :
    (heap[k] = "live") ~> (heap[k] = "freed" \/ k \in lost)

-------------------------------------------------------------------------------
(* Delivery: which bytes of a packet went out, on whatever connection.     *)

StatusOf(k) ==
  IF heap[k] = "none" THEN "unsent"
  ELSE IF heap[k] = "freed" THEN "done"
  ELSE IF k \in lost THEN "lost" ELSE "sending"

D == INSTANCE Delivery WITH
       Packets <- Contexts,
       passed  <- out,
       status  <- [k \in Contexts |-> StatusOf(k)]

(* The bytes of each packet go out in order, none twice and none left out, *)
(* until all have or the sending fails, however the kernel cuts it and     *)
(* whatever becomes of its connection (Session::Send, ProceedSent).        *)
ImplementsDelivery == D!Spec
===============================================================================
