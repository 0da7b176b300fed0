--------------------------- MODULE TransmissionProofs ---------------------------
(***************************************************************************)
(* The sending of packets: types, who has a context, what of a packet goes *)
(* out, and in which order, for any number of sessions, workers,           *)
(* connections and packets.                                                *)
(*                                                                         *)
(* The inductive invariant is TypeOK, Holding (OneHolder, and that what is *)
(* lost was not deleted), BytesRight (the WSABUFs and completions agree    *)
(* with what went out), Ordered (InOrder, and the order in which sends are *)
(* outstanding) and Greets (a server status is sent where it is due).      *)
(***************************************************************************)
EXTENDS Transmission, SequenceTheorems, TLAPS

LEMMA InitType == Init => TypeOK
  <1>1. SUFFICES ASSUME Init PROVE TypeOK
    OBVIOUS
  <1>2. QED
    BY <1>1, TransmissionAssumption DEF Init, TypeOK, Places, Contexts

(* The types of what a send changes.                                       *)
LEMMA SendType ==
  ASSUME TypeOK, NEW k \in Contexts, NEW c \in Connections \cup {NULL},
         NEW up \in BOOLEAN, up => c # NULL, WSASend(k, c, up)
  PROVE  /\ sends' \in [Connections -> Seq(Contexts)]
         /\ lost' \subseteq Contexts
  <1>1. CASE up
    <2>1. Append(sends[c], k) \in Seq(Contexts)
      BY <1>1 DEF TypeOK
    <2>2. sends' = [sends EXCEPT ![c] = Append(sends[c], k)] /\ lost' = lost
      BY <1>1 DEF WSASend
    <2>3. QED
      BY <1>1, <2>1, <2>2 DEF TypeOK
  <1>2. CASE ~ up
    BY <1>2 DEF TypeOK, WSASend
  <1> QED
    BY <1>1, <1>2

LEMMA TicketType ==
  ASSUME TypeOK, NEW k \in Contexts, NEW n \in Lengths,
         NEW c \in Connections \cup {NULL}, CreateTicket(k, n, c)
  PROVE  /\ heap'   \in [Contexts -> {"none", "live", "freed"}]
         /\ length' \in [Contexts -> Lengths \cup {0}]
         /\ buf'    \in [Contexts -> Nat]
         /\ len'    \in [Contexts -> Nat]
         /\ target' \in [Contexts -> Connections \cup {NULL}]
         /\ \A j \in Contexts : buf'[j] + len'[j] = length'[j]
  BY TransmissionAssumption DEF TypeOK, CreateTicket

LEMMA KeyIsPlace == Key \in Places
  BY TransmissionAssumption DEF Key, Places

LEMMA NextType == TypeOK /\ [Next]_vars => TypeOK'
  <1> SUFFICES ASSUME TypeOK, [Next]_vars PROVE TypeOK'
    OBVIOUS
  <1>1. ASSUME NEW k \in Contexts, NEW n \in Lengths, NEW p \in Places,
               NEW c \in Connections, Accept(p, c, k, n)
        PROVE  TypeOK'
    <2>1. c # NULL
      BY TransmissionAssumption
    <2>2. /\ sends' \in [Connections -> Seq(Contexts)]
          /\ lost' \subseteq Contexts
      BY <1>1, <2>1, SendType DEF Accept
    <2>3. CreateTicket(k, n, c)
      BY <1>1 DEF Accept
    <2>4. /\ mySocket' \in [Places -> Connections \cup {NULL}]
          /\ link' \in [Connections -> {"new", "up", "down"}]
      BY <1>1 DEF Accept, TypeOK
    <2>5. /\ UNCHANGED <<port, job, netVars, cut>>
          /\ greeted' \in [Contexts -> Connections \cup {NULL}]
      BY <1>1 DEF Accept, TypeOK
    <2> QED
      BY <2>2, <2>3, <2>4, <2>5, TicketType DEF TypeOK, netVars
  <1>2. ASSUME NEW k \in Contexts, NEW n \in Lengths, Answer(k, n)
        PROVE  TypeOK'
    <2> DEFINE c == mySocket[Key]
    <2>1. c \in Connections \cup {NULL}
      BY KeyIsPlace DEF TypeOK
    <2>2. CreateTicket(k, n, c) /\ WSASend(k, c, IsUp(c))
      BY <1>2 DEF Answer
    <2>3. /\ sends' \in [Connections -> Seq(Contexts)]
          /\ lost' \subseteq Contexts
      BY <2>1, <2>2, SendType DEF IsUp
    <2>4. UNCHANGED <<mySocket, link, port, job, netVars, greeted, cut>>
      BY <1>2 DEF Answer
    <2> HIDE DEF c
    <2> QED
      BY <2>1, <2>2, <2>3, <2>4, TicketType DEF TypeOK, netVars
  <1>3. ASSUME NEW w \in Workers, Dequeue(w)
        PROVE  TypeOK'
    <2>1. Head(port) \in Completions /\ Tail(port) \in Seq(Completions)
      BY <1>3 DEF Dequeue, TypeOK
    <2> QED
      BY <1>3, <2>1 DEF Dequeue, TypeOK, contextVars, netVars, historyVars
  <1>4. ASSUME NEW w \in Workers, SendRest(w)
        PROVE  TypeOK'
    <2> DEFINE c == mySocket[Key]
               k == job[w].context
    <2>1. c \in Connections \cup {NULL} /\ k \in Contexts /\ job[w] \in Completions
      BY <1>4, KeyIsPlace DEF TypeOK, SendRest, Handling, Completions
    <2>2. /\ sends' \in [Connections -> Seq(Contexts)]
          /\ lost' \subseteq Contexts
      <3>1. WSASend(k, c, IsUp(c))
        BY <1>4 DEF SendRest
      <3> QED
        BY <2>1, <3>1, SendType DEF IsUp
    <2>3. /\ buf' \in [Contexts -> Nat]
          /\ len' \in [Contexts -> Nat]
          /\ \A j \in Contexts : buf'[j] + len'[j] = length'[j]
      <3> DEFINE b == job[w].bytes
      <3>1. b \in Nat /\ len[k] - b > 0
        BY <1>4, <2>1 DEF SendRest, Left, Completions
      <3>2. /\ buf' = [buf EXCEPT ![k] = buf[k] + b]
            /\ len' = [len EXCEPT ![k] = len[k] - b]
            /\ length' = length
        BY <1>4 DEF SendRest
      <3> HIDE DEF b, k
      <3>3. buf[k] + b \in Nat /\ len[k] - b \in Nat
        BY <2>1, <3>1 DEF TypeOK
      <3> QED
        BY <2>1, <3>1, <3>2, <3>3 DEF TypeOK
    <2>4. job' \in [Workers -> Completions \cup {NULL}]
      BY <1>4 DEF SendRest, TypeOK
    <2> QED
      BY <1>4, <2>2, <2>3, <2>4 DEF SendRest, TypeOK, netVars
  <1>5. ASSUME NEW w \in Workers, Sent(w)
        PROVE  TypeOK'
    BY <1>5 DEF Sent, TypeOK, netVars, historyVars
  <1>6. ASSUME NEW w \in Workers, SendFailed(w)
        PROVE  TypeOK'
    BY <1>6 DEF SendFailed, Handling, TypeOK, Completions, contextVars, netVars
  <1>7. CASE Cleanup
    BY <1>7 DEF Cleanup, TypeOK, contextVars, netVars, historyVars
  <1>8. ASSUME NEW c \in Connections, HangUp(c)
        PROVE  TypeOK'
    BY <1>8 DEF HangUp, TypeOK, contextVars, netVars, historyVars
  <1>9. ASSUME NEW c \in Connections, Abort(c)
        PROVE  TypeOK'
    <2>1. [context |-> Head(sends[c]), ok |-> FALSE, bytes |-> 0] \in Completions
      BY <1>9 DEF Abort, TypeOK, Completions
    <2>2. Tail(sends[c]) \in Seq(Contexts)
      BY <1>9 DEF Abort, TypeOK
    <2>3. Append(port, [context |-> Head(sends[c]), ok |-> FALSE, bytes |-> 0])
            \in Seq(Completions)
      BY <2>1 DEF TypeOK
    <2> QED
      BY <1>9, <2>2, <2>3 DEF Abort, TypeOK, contextVars, netVars, historyVars
  <1>10. ASSUME NEW c \in Connections, sends[c] # <<>>,
                NEW n \in 1..len[Head(sends[c])], Transmit(c, n)
         PROVE  TypeOK'
    <2> DEFINE k == Head(sends[c])
    <2>1. k \in Contexts /\ n \in Nat
      BY <1>10 DEF TypeOK
    <2>2. [context |-> k, ok |-> TRUE, bytes |-> n] \in Completions
      BY <2>1 DEF Completions
    <2>3. [i \in 1..n |-> buf[k] + i - 1] \in Seq(Nat)
      BY <2>1 DEF TypeOK
    <2>4. out' \in [Contexts -> Seq(Nat)]
      BY <1>10, <2>1, <2>3 DEF Transmit, TypeOK
    <2>5. /\ Tail(sends[c]) \in Seq(Contexts)
          /\ Append(wire[c], k) \in Seq(Contexts)
      BY <1>10, <2>1 DEF TypeOK
    <2>6. Append(port, [context |-> k, ok |-> TRUE, bytes |-> n])
            \in Seq(Completions)
      BY <2>2 DEF TypeOK
    <2>7. /\ sends' = [sends EXCEPT ![c] = Tail(sends[c])]
          /\ wire' = [wire EXCEPT ![c] = Append(wire[c], k)]
          /\ port' = Append(port, [context |-> k, ok |-> TRUE, bytes |-> n])
          /\ cut' \subseteq Contexts
          /\ UNCHANGED <<mySocket, link, contextVars, job, target, greeted, lost>>
      BY <1>10, <2>1 DEF Transmit, TypeOK
    <2> HIDE DEF k
    <2> QED
      BY <2>4, <2>5, <2>6, <2>7 DEF TypeOK, contextVars
  <1>11. CASE UNCHANGED vars
    BY <1>11 DEF vars, TypeOK, contextVars, netVars, historyVars
  <1> QED
    BY <1>1, <1>2, <1>3, <1>4, <1>5, <1>6, <1>7, <1>8, <1>9, <1>10, <1>11
    DEF Next, WorkerStep, KernelStep

(* All variables keep their types.                                         *)
THEOREM TypeCorrect == Spec => []TypeOK
  BY InitType, NextType, PTL DEF Spec

-------------------------------------------------------------------------------
(* OneHolder.  Each lemma says what a move of a context does to the places *)
(* contexts are in.                                                        *)

KernelUnique ==
  \A c, d \in Connections :
    \A i \in 1..Len(sends[c]), j \in 1..Len(sends[d]) :
      sends[c][i] = sends[d][j] => c = d /\ i = j

PortUnique ==
  \A i, j \in 1..Len(port) : port[i].context = port[j].context => i = j

WorkerUnique ==
  \A v, w \in Busy : job[v].context = job[w].context => v = w

Unique == KernelUnique /\ PortUnique /\ WorkerUnique

Held(k) ==
  /\ ~ (InKernel(k) /\ InPort(k))
  /\ ~ (InKernel(k) /\ AtWorker(k))
  /\ ~ (InPort(k) /\ AtWorker(k))
  /\ InKernel(k) \/ InPort(k) \/ AtWorker(k)
       <=> heap[k] = "live" /\ k \notin lost
  /\ k \in lost => heap[k] = "live"

Holding == Unique /\ \A k \in Contexts : Held(k)

LEMMA HoldingIsOneHolder == Holding => OneHolder
  BY DEF Holding, Unique, KernelUnique, PortUnique, WorkerUnique, Held, OneHolder

(* A send puts its context in the kernel, or in lost.                      *)
LEMMA SendMoves ==
  ASSUME TypeOK, KernelUnique, NEW k \in Contexts,
         NEW c \in Connections \cup {NULL}, NEW up \in BOOLEAN, up => c # NULL,
         WSASend(k, c, up), ~ InKernel(k)
  PROVE  /\ KernelUnique'
         /\ \A j \in Contexts : InKernel(j)' <=> InKernel(j) \/ (j = k /\ up)
         /\ \A j \in Contexts : j \in lost' <=> j \in lost \/ (j = k /\ ~ up)
  <1>1. CASE up
    <2>0. c \in Connections
      BY <1>1
    <2>1. sends' = [sends EXCEPT ![c] = Append(sends[c], k)] /\ lost' = lost
      BY <1>1 DEF WSASend
    <2>2. \A d \in Connections \ {c} : sends'[d] = sends[d]
      BY <2>1 DEF TypeOK
    <2>3. sends[c] \in Seq(Contexts)
      BY <2>0 DEF TypeOK
    <2>4. /\ Len(sends'[c]) = Len(sends[c]) + 1
          /\ sends'[c][Len(sends[c]) + 1] = k
          /\ \A i \in 1..Len(sends[c]) : sends'[c][i] = sends[c][i]
      BY <2>0, <2>1, <2>3 DEF TypeOK
    <2>5. \A d \in Connections : \A i \in 1..Len(sends'[d]) :
            IF d = c /\ i = Len(sends[c]) + 1
            THEN sends'[d][i] = k
            ELSE i \in 1..Len(sends[d]) /\ sends'[d][i] = sends[d][i]
      BY <2>2, <2>3, <2>4
    <2>6. \A d \in Connections : \A i \in 1..Len(sends[d]) :
            i \in 1..Len(sends'[d]) /\ sends'[d][i] = sends[d][i]
      BY <2>2, <2>3, <2>4, SMTT(30)
    <2>7. KernelUnique'
      BY <2>0, <2>5, SMTT(30) DEF KernelUnique, InKernel
    <2>8. ASSUME NEW j \in Contexts
          PROVE  InKernel(j)' <=> InKernel(j) \/ j = k
      <3>1. InKernel(j) => InKernel(j)'
        BY <2>6 DEF InKernel
      <3>2. InKernel(k)'
        BY <2>0, <2>3, <2>4 DEF InKernel
      <3>3. InKernel(j)' => InKernel(j) \/ j = k
        BY <2>5 DEF InKernel
      <3> QED
        BY <3>1, <3>2, <3>3
    <2> QED
      BY <1>1, <2>1, <2>7, <2>8
  <1>2. CASE ~ up
    BY <1>2 DEF WSASend, KernelUnique, InKernel
  <1> QED
    BY <1>1, <1>2

(* The kernel gives up the first context of a connection.                  *)
LEMMA KernelGives ==
  ASSUME TypeOK, KernelUnique, NEW c \in Connections, sends[c] # <<>>,
         sends' = [sends EXCEPT ![c] = Tail(@)]
  PROVE  /\ Head(sends[c]) \in Contexts
         /\ InKernel(Head(sends[c]))
         /\ KernelUnique'
         /\ \A j \in Contexts :
              InKernel(j)' <=> InKernel(j) /\ j # Head(sends[c])
  <1> DEFINE k == Head(sends[c])
  <1>1. /\ sends[c] \in Seq(Contexts)
        /\ Len(sends[c]) \in Nat \ {0}
        /\ k = sends[c][1] /\ k \in Contexts
    BY DEF TypeOK
  <1>2. \A d \in Connections \ {c} : sends'[d] = sends[d]
    BY DEF TypeOK
  <1>3. /\ Len(sends'[c]) = Len(sends[c]) - 1
        /\ \A i \in 1..Len(sends[c]) - 1 : sends'[c][i] = sends[c][i + 1]
    BY <1>1 DEF TypeOK
  <1>4. \A d \in Connections : \A i \in 1..Len(sends'[d]) :
          IF d = c THEN i + 1 \in 2..Len(sends[d]) /\ sends'[d][i] = sends[d][i + 1]
                   ELSE i \in 1..Len(sends[d]) /\ sends'[d][i] = sends[d][i]
    BY <1>1, <1>2, <1>3
  <1> HIDE DEF k
  <1>5. InKernel(k)
    BY <1>1 DEF InKernel
  <1>6. KernelUnique'
    <2> SUFFICES ASSUME NEW a \in Connections, NEW d \in Connections,
                        NEW i \in 1..Len(sends'[a]), NEW j \in 1..Len(sends'[d]),
                        sends'[a][i] = sends'[d][j]
                 PROVE  a = d /\ i = j
      BY DEF KernelUnique
    <2> DEFINE I == IF a = c THEN i + 1 ELSE i
               J == IF d = c THEN j + 1 ELSE j
    <2>1. /\ I \in 1..Len(sends[a]) /\ J \in 1..Len(sends[d])
          /\ sends[a][I] = sends[d][J]
      <3>1. I \in 1..Len(sends[a]) /\ sends'[a][i] = sends[a][I]
        BY <1>1, <1>4
      <3>2. J \in 1..Len(sends[d]) /\ sends'[d][j] = sends[d][J]
        BY <1>1, <1>4
      <3> QED
        BY <3>1, <3>2
    <2>2. a = d /\ I = J
      BY <2>1 DEF KernelUnique
    <2>3. i \in Int /\ j \in Int
      OBVIOUS
    <2> QED
      BY <2>2, <2>3
  <1>7. ASSUME NEW j \in Contexts
        PROVE  InKernel(j)' <=> InKernel(j) /\ j # k
    <2>1. ASSUME InKernel(j)' PROVE InKernel(j) /\ j # k
      <3>1. PICK d \in Connections : \E i \in 1..Len(sends'[d]) : sends'[d][i] = j
        BY <2>1 DEF InKernel
      <3>2. PICK i \in 1..Len(sends'[d]) : sends'[d][i] = j
        BY <3>1
      <3>3. CASE d = c
        BY <1>1, <1>4, <3>2, <3>3 DEF InKernel, KernelUnique
      <3>4. CASE d # c
        BY <1>1, <1>4, <3>2, <3>4 DEF InKernel, KernelUnique
      <3> QED
        BY <3>3, <3>4
    <2>2. ASSUME InKernel(j), j # k PROVE InKernel(j)'
      <3>1. PICK d \in Connections : \E i \in 1..Len(sends[d]) : sends[d][i] = j
        BY <2>2 DEF InKernel
      <3>2. PICK i \in 1..Len(sends[d]) : sends[d][i] = j
        BY <3>1
      <3>3. CASE d = c
        <4>1. i - 1 \in 1..Len(sends'[c]) /\ sends'[c][i - 1] = j
          BY <1>1, <1>3, <2>2, <3>2, <3>3
        <4> QED
          BY <4>1 DEF InKernel
      <3>4. CASE d # c
        BY <1>2, <3>2, <3>4 DEF InKernel
      <3> QED
        BY <3>3, <3>4
    <2> QED
      BY <2>1, <2>2
  <1> QED
    BY <1>1, <1>5, <1>6, <1>7 DEF k

(* A completion comes to the port.                                         *)
LEMMA PortTakes ==
  ASSUME TypeOK, PortUnique, NEW e \in Completions, port' = Append(port, e),
         ~ InPort(e.context)
  PROVE  /\ PortUnique'
         /\ \A j \in Contexts : InPort(j)' <=> InPort(j) \/ j = e.context
  <1>1. /\ Len(port') = Len(port) + 1
        /\ port'[Len(port) + 1] = e
        /\ \A i \in 1..Len(port) : port'[i] = port[i]
        /\ Len(port) \in Nat
    BY DEF TypeOK
  <1>2. PortUnique'
    BY <1>1 DEF PortUnique, InPort
  <1>3. \A j \in Contexts : InPort(j)' <=> InPort(j) \/ j = e.context
    BY <1>1 DEF InPort
  <1> QED
    BY <1>2, <1>3

(* A worker takes the first completion.                                    *)
LEMMA PortGives ==
  ASSUME TypeOK, PortUnique, port # <<>>, port' = Tail(port)
  PROVE  /\ Head(port) \in Completions
         /\ InPort(Head(port).context)
         /\ PortUnique'
         /\ \A j \in Contexts : InPort(j)' <=> InPort(j) /\ j # Head(port).context
  <1>1. /\ Len(port) \in Nat \ {0}
        /\ Head(port) = port[1] /\ Head(port) \in Completions
        /\ Len(port') = Len(port) - 1
        /\ \A i \in 1..Len(port) - 1 : port'[i] = port[i + 1]
    BY DEF TypeOK
  <1>2. \A i \in 1..Len(port') : i + 1 \in 1..Len(port) /\ port'[i] = port[i + 1]
    BY <1>1
  <1>3. PortUnique'
    BY <1>1, <1>2 DEF PortUnique
  <1>4. InPort(Head(port).context)
    BY <1>1 DEF InPort
  <1>5. ASSUME NEW j \in Contexts
        PROVE  InPort(j)' <=> InPort(j) /\ j # Head(port).context
    <2>1. InPort(j)' => InPort(j) /\ j # Head(port).context
      BY <1>1, <1>2 DEF InPort, PortUnique
    <2>2. ASSUME InPort(j), j # Head(port).context PROVE InPort(j)'
      <3>1. PICK i \in 1..Len(port) : port[i].context = j
        BY <2>2 DEF InPort
      <3>2. i - 1 \in 1..Len(port') /\ port'[i - 1].context = j
        BY <1>1, <2>2, <3>1
      <3> QED
        BY <3>2 DEF InPort
    <2> QED
      BY <2>1, <2>2
  <1> QED
    BY <1>1, <1>3, <1>4, <1>5

(* A worker takes a completion.                                            *)
LEMMA WorkerTakes ==
  ASSUME TypeOK, WorkerUnique, NEW w \in Workers, job[w] = NULL,
         NEW e \in Completions, e # NULL, job' = [job EXCEPT ![w] = e],
         ~ AtWorker(e.context)
  PROVE  /\ WorkerUnique'
         /\ \A j \in Contexts : AtWorker(j)' <=> AtWorker(j) \/ j = e.context
  <1>1. /\ job'[w] = e /\ \A v \in Workers \ {w} : job'[v] = job[v]
        /\ Busy' = Busy \cup {w} /\ w \notin Busy
    BY DEF TypeOK, Busy
  <1> QED
    BY <1>1 DEF WorkerUnique, AtWorker, Busy

(* A worker is done with its completion.                                   *)
LEMMA WorkerGives ==
  ASSUME TypeOK, WorkerUnique, NEW w \in Workers, job[w] # NULL,
         job' = [job EXCEPT ![w] = NULL]
  PROVE  /\ AtWorker(job[w].context)
         /\ WorkerUnique'
         /\ \A j \in Contexts : AtWorker(j)' <=> AtWorker(j) /\ j # job[w].context
  <1>1. /\ \A v \in Workers \ {w} : job'[v] = job[v]
        /\ Busy' = Busy \ {w} /\ w \in Busy
    BY DEF TypeOK, Busy
  <1> QED
    BY <1>1 DEF WorkerUnique, AtWorker, Busy

LEMMA InitHolding == Init => Holding
  <1> SUFFICES ASSUME Init PROVE Holding
    OBVIOUS
  <1>1. /\ \A c \in Connections : sends[c] = <<>>
        /\ port = <<>> /\ Busy = {} /\ lost = {}
        /\ \A k \in Contexts : heap[k] = "none"
    BY DEF Init, Busy
  <1>2. Unique
    BY <1>1 DEF Unique, KernelUnique, PortUnique, WorkerUnique
  <1>3. \A k \in Contexts : Held(k)
    BY <1>1 DEF Held, InKernel, InPort, AtWorker
  <1> QED
    BY <1>2, <1>3 DEF Holding

(* A new context, sent at once.                                            *)
LEMMA NewHolding ==
  ASSUME TypeOK, Holding, NEW k \in Contexts, NEW n \in Lengths,
         NEW c \in Connections \cup {NULL}, NEW up \in BOOLEAN, up => c # NULL,
         CreateTicket(k, n, c), WSASend(k, c, up), UNCHANGED <<port, job>>
  PROVE  Holding'
  <1>1. heap[k] = "none" /\ Held(k)
    BY DEF CreateTicket, Holding
  <1>2. ~ InKernel(k) /\ ~ InPort(k) /\ ~ AtWorker(k)
    BY <1>1 DEF Held
  <1>3. /\ KernelUnique'
        /\ \A j \in Contexts : InKernel(j)' <=> InKernel(j) \/ (j = k /\ up)
        /\ \A j \in Contexts : j \in lost' <=> j \in lost \/ (j = k /\ ~ up)
    BY <1>2, SendMoves DEF Holding, Unique
  <1>4. /\ PortUnique' /\ WorkerUnique'
        /\ \A j \in Contexts : /\ InPort(j)' <=> InPort(j)
                               /\ AtWorker(j)' <=> AtWorker(j)
    BY DEF Holding, Unique, PortUnique, WorkerUnique, InPort, AtWorker, Busy
  <1>5. heap'[k] = "live" /\ \A j \in Contexts \ {k} : heap'[j] = heap[j]
    BY DEF CreateTicket, TypeOK
  <1>6. ASSUME NEW j \in Contexts PROVE Held(j)'
    <2>1. Held(j)
      BY DEF Holding
    <2> QED
      BY <1>1, <1>2, <1>3, <1>4, <1>5, <2>1 DEF Held
  <1> QED
    BY <1>3, <1>4, <1>6 DEF Holding, Unique

(* What a worker has is a live context, and not lost.                      *)
LEMMA HandledContext ==
  ASSUME TypeOK, Holding, NEW w \in Workers, job[w] # NULL
  PROVE  LET k == job[w].context IN
         /\ job[w] \in Completions /\ k \in Contexts
         /\ AtWorker(k) /\ ~ InKernel(k) /\ ~ InPort(k)
         /\ heap[k] = "live" /\ k \notin lost
  <1>1. job[w] \in Completions /\ job[w].context \in Contexts
    BY DEF TypeOK, Completions
  <1>2. AtWorker(job[w].context)
    BY DEF AtWorker, Busy
  <1> QED
    BY <1>1, <1>2 DEF Holding, Held

LEMMA NextHolding == TypeOK /\ Holding /\ [Next]_vars => Holding'
  <1> SUFFICES ASSUME TypeOK, Holding, [Next]_vars PROVE Holding'
    OBVIOUS
  <1> USE DEF Unique
  <1>1. ASSUME NEW k \in Contexts, NEW n \in Lengths, NEW p \in Places,
               NEW c \in Connections, Accept(p, c, k, n)
        PROVE  Holding'
    <2>1. c # NULL
      BY TransmissionAssumption
    <2> QED
      BY <1>1, <2>1, NewHolding DEF Accept
  <1>2. ASSUME NEW k \in Contexts, NEW n \in Lengths, Answer(k, n)
        PROVE  Holding'
    <2>1. mySocket[Key] \in Connections \cup {NULL}
      BY KeyIsPlace DEF TypeOK
    <2> QED
      BY <1>2, <2>1, NewHolding DEF Answer, IsUp
  <1>3. ASSUME NEW w \in Workers, Dequeue(w)
        PROVE  Holding'
    <2> DEFINE e == Head(port)
    <2>1. /\ job[w] = NULL /\ port # <<>> /\ port' = Tail(port)
          /\ job' = [job EXCEPT ![w] = e]
          /\ UNCHANGED <<heap, sends, lost>>
      BY <1>3 DEF Dequeue, contextVars, historyVars
    <2>2. /\ e \in Completions /\ InPort(e.context) /\ PortUnique'
          /\ \A j \in Contexts : InPort(j)' <=> InPort(j) /\ j # e.context
      BY <2>1, PortGives DEF Holding
    <2>3. e # NULL /\ e.context \in Contexts
      BY <2>2, NullAssumption DEF Completions
    <2>4. Held(e.context)
      BY <2>3 DEF Holding
    <2> HIDE DEF e
    <2>5. /\ WorkerUnique'
          /\ \A j \in Contexts : AtWorker(j)' <=> AtWorker(j) \/ j = e.context
      BY <2>1, <2>2, <2>3, <2>4, WorkerTakes DEF Holding, Held
    <2>6. KernelUnique' /\ \A j \in Contexts : InKernel(j)' <=> InKernel(j)
      BY <2>1 DEF Holding, KernelUnique, InKernel
    <2>7. ASSUME NEW j \in Contexts PROVE Held(j)'
      BY <2>1, <2>2, <2>3, <2>4, <2>5, <2>6 DEF Holding, Held
    <2> QED
      BY <2>2, <2>5, <2>6, <2>7 DEF Holding
  <1>4. ASSUME NEW w \in Workers, SendRest(w)
        PROVE  Holding'
    <2> DEFINE k == job[w].context
               c == mySocket[Key]
    <2>1. /\ job[w] # NULL /\ job' = [job EXCEPT ![w] = NULL]
          /\ UNCHANGED <<heap, port>> /\ WSASend(k, c, IsUp(c))
      BY <1>4 DEF SendRest, Handling
    <2>2. /\ k \in Contexts /\ ~ InKernel(k) /\ ~ InPort(k)
          /\ heap[k] = "live" /\ k \notin lost
      BY <2>1, HandledContext
    <2>3. c \in Connections \cup {NULL}
      BY KeyIsPlace DEF TypeOK
    <2>4. /\ WorkerUnique'
          /\ \A j \in Contexts : AtWorker(j)' <=> AtWorker(j) /\ j # k
      BY <2>1, WorkerGives DEF Holding
    <2>5. PortUnique' /\ \A j \in Contexts : InPort(j)' <=> InPort(j)
      BY <2>1 DEF Holding, PortUnique, InPort
    <2> HIDE DEF k, c
    <2>6. /\ KernelUnique'
          /\ \A j \in Contexts : InKernel(j)' <=> InKernel(j) \/ (j = k /\ IsUp(c))
          /\ \A j \in Contexts : j \in lost' <=> j \in lost \/ (j = k /\ ~ IsUp(c))
      BY <2>1, <2>2, <2>3, SendMoves DEF Holding, IsUp
    <2>7. ASSUME NEW j \in Contexts PROVE Held(j)'
      BY <2>1, <2>2, <2>4, <2>5, <2>6 DEF Holding, Held
    <2> QED
      BY <2>4, <2>5, <2>6, <2>7 DEF Holding
  <1>5. ASSUME NEW w \in Workers, Sent(w) \/ SendFailed(w)
        PROVE  Holding'
    <2> DEFINE k == job[w].context
    <2>1. /\ job[w] # NULL /\ job' = [job EXCEPT ![w] = NULL]
          /\ UNCHANGED <<sends, port>>
          /\ \/ heap' = [heap EXCEPT ![k] = "freed"] /\ lost' = lost
             \/ lost' = lost \cup {k} /\ heap' = heap
      BY <1>5 DEF Sent, SendFailed, Handling, contextVars, historyVars
    <2>2. /\ k \in Contexts /\ ~ InKernel(k) /\ ~ InPort(k)
          /\ heap[k] = "live" /\ k \notin lost
      BY <2>1, HandledContext
    <2>3. /\ WorkerUnique'
          /\ \A j \in Contexts : AtWorker(j)' <=> AtWorker(j) /\ j # k
      BY <2>1, WorkerGives DEF Holding
    <2>4. /\ PortUnique' /\ KernelUnique'
          /\ \A j \in Contexts : /\ InPort(j)' <=> InPort(j)
                                 /\ InKernel(j)' <=> InKernel(j)
      BY <2>1 DEF Holding, PortUnique, InPort, KernelUnique, InKernel
    <2> HIDE DEF k
    <2>5. ASSUME NEW j \in Contexts PROVE Held(j)'
      <3>1. j # k => heap'[j] = heap[j] /\ (j \in lost' <=> j \in lost)
        BY <2>1 DEF TypeOK
      <3>2. \/ heap'[k] = "freed" /\ k \notin lost'
            \/ heap'[k] = "live" /\ k \in lost'
        BY <2>1, <2>2 DEF TypeOK
      <3> QED
        BY <2>2, <2>3, <2>4, <3>1, <3>2 DEF Holding, Held
    <2> QED
      BY <2>3, <2>4, <2>5 DEF Holding
  <1>6. ASSUME UNCHANGED <<heap, sends, port, job, lost>>
        PROVE  Holding'
    BY <1>6 DEF Holding, Held, KernelUnique, PortUnique, WorkerUnique, InKernel,
                InPort, AtWorker, Busy
  <1>7. ASSUME NEW c \in Connections, sends[c] # <<>>,
               sends' = [sends EXCEPT ![c] = Tail(@)],
               NEW e \in Completions, e.context = Head(sends[c]),
               port' = Append(port, e), UNCHANGED <<heap, job, lost>>
        PROVE  Holding'
    <2> DEFINE k == Head(sends[c])
    <2>1. /\ k \in Contexts /\ InKernel(k) /\ KernelUnique'
          /\ \A j \in Contexts : InKernel(j)' <=> InKernel(j) /\ j # k
      BY <1>7, KernelGives DEF Holding
    <2>2. Held(k)
      BY <2>1 DEF Holding
    <2>3. /\ PortUnique'
          /\ \A j \in Contexts : InPort(j)' <=> InPort(j) \/ j = k
      BY <1>7, <2>1, <2>2, PortTakes DEF Holding, Held
    <2>4. WorkerUnique' /\ \A j \in Contexts : AtWorker(j)' <=> AtWorker(j)
      BY <1>7 DEF Holding, WorkerUnique, AtWorker, Busy
    <2> HIDE DEF k
    <2>5. ASSUME NEW j \in Contexts PROVE Held(j)'
      BY <1>7, <2>1, <2>2, <2>3, <2>4 DEF Holding, Held
    <2> QED
      BY <2>1, <2>3, <2>4, <2>5 DEF Holding
  <1>8. ASSUME NEW c \in Connections, Abort(c)
        PROVE  Holding'
    <2>1. [context |-> Head(sends[c]), ok |-> FALSE, bytes |-> 0] \in Completions
      BY <1>8 DEF Abort, TypeOK, Completions
    <2> QED
      BY <1>7, <1>8, <2>1 DEF Abort, contextVars, historyVars
  <1>9. ASSUME NEW c \in Connections, sends[c] # <<>>,
               NEW n \in 1..len[Head(sends[c])], Transmit(c, n)
        PROVE  Holding'
    <2>1. [context |-> Head(sends[c]), ok |-> TRUE, bytes |-> n] \in Completions
      BY <1>9 DEF TypeOK, Completions
    <2> QED
      BY <1>7, <1>9, <2>1 DEF Transmit, contextVars
  <1>10. Cleanup \/ (\E c \in Connections : HangUp(c)) \/ UNCHANGED vars
           => UNCHANGED <<heap, sends, port, job, lost>>
    BY DEF Cleanup, HangUp, vars, contextVars, historyVars
  <1> QED
    BY <1>1, <1>2, <1>3, <1>4, <1>5, <1>6, <1>8, <1>9, <1>10
    DEF Next, WorkerStep, KernelStep

(* Nobody deletes a context somebody else has, and none is forgotten.      *)
THEOREM OneHolderAlways == Spec => []OneHolder
  BY InitType, NextType, InitHolding, NextHolding, HoldingIsOneHolder, PTL DEF Spec

-------------------------------------------------------------------------------
(* The bytes that went out are what the WSABUF of a context in the kernel, *)
(* or a completion of it, says.                                            *)

CompletionRight(e, o, b, l) ==
  e.ok => /\ e.bytes \in 1..l[e.context]
          /\ o[e.context] = D!First(b[e.context] + e.bytes)

BytesRight ==
  /\ \A k \in Contexts : InKernel(k) => out[k] = D!First(buf[k])
  /\ \A i \in 1..Len(port) : CompletionRight(port[i], out, buf, len)
  /\ \A w \in Busy : CompletionRight(job[w], out, buf, len)
  /\ \A k \in Contexts : heap[k] = "none" => out[k] = <<>>

LEMMA FirstEmpty == D!First(0) = <<>>
  BY DEF D!First

LEMMA FirstMore ==
  ASSUME NEW m \in Nat, NEW n \in Nat
  PROVE  D!First(m) \o [i \in 1..n |-> m + i - 1] = D!First(m + n)
  <1> DEFINE s == D!First(m)
             t == [i \in 1..n |-> m + i - 1]
             u == D!First(m + n)
  <1>1. /\ s \in Seq(Int) /\ Len(s) = m /\ \A i \in 1..m : s[i] = i - 1
        /\ t \in Seq(Int) /\ Len(t) = n /\ \A i \in 1..n : t[i] = m + i - 1
        /\ u \in Seq(Int) /\ Len(u) = m + n /\ \A i \in 1..m + n : u[i] = i - 1
    BY DEF D!First
  <1> HIDE DEF s, t, u
  <1>2. /\ s \o t \in Seq(Int) /\ Len(s \o t) = m + n
        /\ \A i \in 1..m + n : (s \o t)[i] = IF i <= m THEN s[i] ELSE t[i - m]
    BY <1>1, ConcatProperties, Zenon
  <1>3. \A i \in 1..m + n : (s \o t)[i] = u[i]
    BY <1>1, <1>2
  <1>4. s \o t = u
    BY <1>1, <1>2, <1>3, SeqEqual
  <1> QED
    BY <1>4 DEF s, t, u

LEMMA InitBytes == Init => BytesRight
  BY DEF Init, BytesRight, InKernel, Busy

(* A new context, sent at once.                                            *)
LEMMA NewBytes ==
  ASSUME TypeOK, Holding, BytesRight, NEW k \in Contexts, NEW n \in Lengths,
         NEW c \in Connections \cup {NULL}, NEW up \in BOOLEAN, up => c # NULL,
         CreateTicket(k, n, c), WSASend(k, c, up), UNCHANGED <<port, job, out>>
  PROVE  BytesRight'
  <1>1. heap[k] = "none" /\ Held(k)
    BY DEF CreateTicket, Holding
  <1>2. ~ InKernel(k) /\ ~ InPort(k) /\ ~ AtWorker(k)
    BY <1>1 DEF Held
  <1>3. \A j \in Contexts : InKernel(j)' => InKernel(j) \/ j = k
    BY <1>2, SendMoves DEF Holding, Unique
  <1>4. /\ buf'[k] = 0 /\ heap'[k] = "live"
        /\ \A j \in Contexts \ {k} :
             buf'[j] = buf[j] /\ len'[j] = len[j] /\ heap'[j] = heap[j]
    BY DEF CreateTicket, TypeOK
  <1>5. out[k] = D!First(0)
    BY <1>1, FirstEmpty DEF BytesRight
  <1>6. ASSUME NEW j \in Contexts, InKernel(j)' PROVE out'[j] = D!First(buf'[j])
    BY <1>3, <1>4, <1>5, <1>6 DEF BytesRight
  <1>7. ASSUME NEW e \in Completions, e.context # k, CompletionRight(e, out, buf, len)
        PROVE  CompletionRight(e, out', buf', len')
    <2>1. e.context \in Contexts \ {k}
      BY <1>7 DEF Completions
    <2> QED
      BY <1>4, <1>7, <2>1 DEF CompletionRight
  <1>8. ASSUME NEW i \in 1..Len(port') PROVE CompletionRight(port'[i], out', buf', len')
    <2>1. port[i] \in Completions /\ port[i].context # k
      BY <1>2 DEF TypeOK, InPort
    <2> QED
      BY <1>7, <2>1 DEF BytesRight
  <1>9. ASSUME NEW w \in Busy' PROVE CompletionRight(job'[w], out', buf', len')
    <2>1. w \in Busy /\ job[w] \in Completions /\ job[w].context # k
      BY <1>2 DEF TypeOK, AtWorker, Busy
    <2> QED
      BY <1>7, <2>1 DEF BytesRight
  <1>10. \A j \in Contexts : heap'[j] = "none" => out'[j] = <<>>
    BY <1>4 DEF BytesRight
  <1> QED
    BY <1>6, <1>8, <1>9, <1>10 DEF BytesRight

LEMMA NextBytes == TypeOK /\ Holding /\ BytesRight /\ [Next]_vars => BytesRight'
  <1> SUFFICES ASSUME TypeOK, Holding, BytesRight, [Next]_vars PROVE BytesRight'
    OBVIOUS
  <1> USE DEF Unique
  <1>1. ASSUME NEW k \in Contexts, NEW n \in Lengths, NEW p \in Places,
               NEW c \in Connections, Accept(p, c, k, n)
        PROVE  BytesRight'
    <2>1. c # NULL
      BY TransmissionAssumption
    <2> QED
      BY <1>1, <2>1, NewBytes DEF Accept, netVars
  <1>2. ASSUME NEW k \in Contexts, NEW n \in Lengths, Answer(k, n)
        PROVE  BytesRight'
    <2>1. mySocket[Key] \in Connections \cup {NULL}
      BY KeyIsPlace DEF TypeOK
    <2> QED
      BY <1>2, <2>1, NewBytes DEF Answer, IsUp, netVars
  <1>3. ASSUME NEW w \in Workers, Dequeue(w)
        PROVE  BytesRight'
    <2>1. /\ job[w] = NULL /\ port # <<>> /\ port' = Tail(port)
          /\ job' = [job EXCEPT ![w] = Head(port)]
          /\ UNCHANGED <<heap, buf, len, out, sends>>
      BY <1>3 DEF Dequeue, contextVars, netVars
    <2>2. /\ Len(port) \in Nat \ {0} /\ Head(port) = port[1]
          /\ \A i \in 1..Len(port') : i + 1 \in 1..Len(port) /\ port'[i] = port[i + 1]
      BY <2>1 DEF TypeOK
    <2>3. /\ job'[w] = port[1] /\ \A v \in Busy' : v = w \/ (v \in Busy /\ job'[v] = job[v])
      BY <2>1, <2>2 DEF TypeOK, Busy
    <2>4. \A e : CompletionRight(e, out, buf, len) => CompletionRight(e, out', buf', len')
      BY <2>1 DEF CompletionRight
    <2>5. \A i \in 1..Len(port') : CompletionRight(port'[i], out', buf', len')
      BY <2>2, <2>4 DEF BytesRight
    <2>6. \A v \in Busy' : CompletionRight(job'[v], out', buf', len')
      BY <2>2, <2>3, <2>4 DEF BytesRight
    <2> QED
      BY <2>1, <2>5, <2>6 DEF BytesRight, InKernel
  <1>4. ASSUME NEW w \in Workers, SendRest(w)
        PROVE  BytesRight'
    <2> DEFINE k == job[w].context
               b == job[w].bytes
               c == mySocket[Key]
    <2>1. /\ job[w] # NULL /\ job[w].ok /\ job' = [job EXCEPT ![w] = NULL]
          /\ UNCHANGED <<heap, port, out>> /\ WSASend(k, c, IsUp(c))
          /\ buf' = [buf EXCEPT ![k] = buf[k] + b]
          /\ len' = [len EXCEPT ![k] = len[k] - b]
      BY <1>4 DEF SendRest, Handling, netVars
    <2>2. /\ job[w] \in Completions /\ k \in Contexts
          /\ ~ InKernel(k) /\ ~ InPort(k)
      BY <2>1, HandledContext
    <2>3. c \in Connections \cup {NULL}
      BY KeyIsPlace DEF TypeOK
    <2>4. /\ buf'[k] = buf[k] + b
          /\ \A j \in Contexts \ {k} : buf'[j] = buf[j] /\ len'[j] = len[j]
      BY <2>1, <2>2 DEF TypeOK
    <2>5. CompletionRight(job[w], out, buf, len)
      BY <2>1 DEF BytesRight, Busy
    <2>6. out[k] = D!First(buf[k] + b)
      BY <2>1, <2>5 DEF CompletionRight
    <2>7. ASSUME NEW v \in Busy'
          PROVE  v \in Busy /\ job'[v] = job[v] /\ job[v].context # k
      <3>1. v # w /\ v \in Busy /\ w \in Busy /\ job'[v] = job[v]
        BY <2>1 DEF Busy, TypeOK
      <3> QED
        BY <3>1 DEF Holding, WorkerUnique
    <2> HIDE DEF k, b, c
    <2>8. \A j \in Contexts : InKernel(j)' => InKernel(j) \/ j = k
      BY <2>1, <2>2, <2>3, SendMoves DEF Holding, IsUp
    <2>9. ASSUME NEW e \in Completions, e.context # k, CompletionRight(e, out, buf, len)
          PROVE  CompletionRight(e, out', buf', len')
      <3>1. e.context \in Contexts \ {k}
        BY <2>9 DEF Completions
      <3> QED
        BY <2>1, <2>4, <2>9, <3>1 DEF CompletionRight
    <2>10. ASSUME NEW i \in 1..Len(port') PROVE CompletionRight(port'[i], out', buf', len')
      <3>1. i \in 1..Len(port) /\ port[i] \in Completions /\ port[i].context # k
        BY <2>1, <2>2 DEF TypeOK, InPort
      <3> QED
        BY <2>1, <2>9, <3>1 DEF BytesRight
    <2>11. ASSUME NEW v \in Busy' PROVE CompletionRight(job'[v], out', buf', len')
      <3>1. job[v] \in Completions
        BY <2>7 DEF TypeOK, Busy
      <3> QED
        BY <2>7, <2>9, <3>1 DEF BytesRight
    <2>12. ASSUME NEW j \in Contexts, InKernel(j)' PROVE out'[j] = D!First(buf'[j])
      BY <2>1, <2>4, <2>6, <2>8, <2>12 DEF BytesRight
    <2> QED
      BY <2>1, <2>10, <2>11, <2>12 DEF BytesRight
  <1>5. ASSUME NEW w \in Workers, Sent(w) \/ SendFailed(w)
        PROVE  BytesRight'
    <2>1. /\ job' = [job EXCEPT ![w] = NULL]
          /\ UNCHANGED <<buf, len, sends, port, out>>
          /\ heap' = heap \/ heap' = [heap EXCEPT ![job[w].context] = "freed"]
      BY <1>5 DEF Sent, SendFailed, contextVars, netVars
    <2>2. \A v \in Busy' : v \in Busy /\ job'[v] = job[v]
      BY <2>1 DEF Busy, TypeOK
    <2>3. \A k \in Contexts : heap'[k] = "none" => heap[k] = "none"
      BY <2>1 DEF TypeOK
    <2>4. \A e : CompletionRight(e, out, buf, len) => CompletionRight(e, out', buf', len')
      BY <2>1 DEF CompletionRight
    <2> QED
      BY <2>1, <2>2, <2>3, <2>4 DEF BytesRight, InKernel
  <1>6. ASSUME UNCHANGED <<heap, buf, len, sends, port, job, out>>
        PROVE  BytesRight'
    BY <1>6 DEF BytesRight, InKernel, CompletionRight, Busy
  <1>7. ASSUME NEW c \in Connections, Abort(c)
        PROVE  BytesRight'
    <2> DEFINE e == [context |-> Head(sends[c]), ok |-> FALSE, bytes |-> 0]
    <2>1. /\ sends[c] # <<>> /\ sends' = [sends EXCEPT ![c] = Tail(@)]
          /\ port' = Append(port, e) /\ UNCHANGED <<heap, buf, len, job, out>>
      BY <1>7 DEF Abort, contextVars, netVars
    <2>2. \A j \in Contexts : InKernel(j)' => InKernel(j)
      BY <2>1, KernelGives DEF Holding
    <2>3. \A i \in 1..Len(port') :
            \/ i \in 1..Len(port) /\ port'[i] = port[i]
            \/ port'[i] = e
      BY <2>1 DEF TypeOK
    <2>4. \A f : CompletionRight(f, out, buf, len) => CompletionRight(f, out', buf', len')
      BY <2>1 DEF CompletionRight
    <2>5. CompletionRight(e, out', buf', len')
      BY DEF CompletionRight
    <2> HIDE DEF e
    <2> QED
      BY <2>1, <2>2, <2>3, <2>4, <2>5 DEF BytesRight, Busy
  <1>8. ASSUME NEW c \in Connections, sends[c] # <<>>,
               NEW n \in 1..len[Head(sends[c])], Transmit(c, n)
        PROVE  BytesRight'
    <2> DEFINE k == Head(sends[c])
               e == [context |-> k, ok |-> TRUE, bytes |-> n]
    <2>1. /\ sends' = [sends EXCEPT ![c] = Tail(@)]
          /\ port' = Append(port, e) /\ UNCHANGED <<heap, buf, len, job>>
          /\ out' = [out EXCEPT ![k] = out[k] \o [i \in 1..n |-> buf[k] + i - 1]]
      BY <1>8 DEF Transmit, contextVars
    <2>2. /\ k \in Contexts /\ InKernel(k)
          /\ \A j \in Contexts : InKernel(j)' => InKernel(j) /\ j # k
      BY <1>8, <2>1, KernelGives DEF Holding
    <2>3. ~ InPort(k) /\ ~ AtWorker(k) /\ heap[k] = "live"
      BY <2>2 DEF Holding, Held
    <2>4. n \in 1..len[k] /\ n \in Nat /\ buf[k] \in Nat
      BY <1>8, <2>2 DEF TypeOK
    <2>5. e.context = k /\ e.bytes = n /\ e \in Completions
      BY <2>2, <2>4 DEF Completions
    <2> HIDE DEF e, k
    <2>6. \A i \in 1..Len(port') :
            \/ i \in 1..Len(port) /\ port'[i] = port[i]
            \/ port'[i] = e
      <3>1. port \in Seq(Completions) /\ port' = Append(port, e)
        BY <2>1 DEF TypeOK
      <3> QED
        BY <2>5, <3>1
    <2>7. out[k] = D!First(buf[k])
      BY <2>2 DEF BytesRight
    <2>8. /\ out'[k] = D!First(buf[k] + n)
          /\ \A j \in Contexts \ {k} : out'[j] = out[j]
      BY <2>1, <2>2, <2>4, <2>7, FirstMore DEF TypeOK
    <2>9. CompletionRight(e, out', buf', len')
      BY <2>1, <2>4, <2>5, <2>8 DEF CompletionRight
    <2>10. ASSUME NEW f \in Completions, f.context # k, CompletionRight(f, out, buf, len)
           PROVE  CompletionRight(f, out', buf', len')
      <3>1. f.context \in Contexts \ {k}
        BY <2>10 DEF Completions
      <3> QED
        BY <2>1, <2>8, <2>10, <3>1 DEF CompletionRight
    <2>11. ASSUME NEW i \in 1..Len(port') PROVE CompletionRight(port'[i], out', buf', len')
      <3>1. CASE i \in 1..Len(port) /\ port'[i] = port[i]
        <4>1. port \in Seq(Completions)
          BY DEF TypeOK
        <4>2. port[i] \in Completions
          BY <3>1, <4>1
        <4>3. port[i].context # k
          BY <2>3, <3>1 DEF InPort
        <4> QED
          BY <2>10, <3>1, <4>2, <4>3 DEF BytesRight
      <3>2. CASE port'[i] = e
        BY <2>9, <3>2
      <3> QED
        BY <2>6, <3>1, <3>2
    <2>12. ASSUME NEW v \in Busy' PROVE CompletionRight(job'[v], out', buf', len')
      <3>1. v \in Busy /\ job[v] \in Completions /\ job[v].context # k
        BY <2>1, <2>3 DEF TypeOK, AtWorker, Busy
      <3> QED
        BY <2>1, <2>10, <3>1 DEF BytesRight
    <2>13. \A j \in Contexts : heap'[j] = "none" => out'[j] = <<>>
      BY <2>1, <2>3, <2>8 DEF BytesRight
    <2>14. \A j \in Contexts : InKernel(j)' => out'[j] = D!First(buf'[j])
      BY <2>1, <2>2, <2>8 DEF BytesRight
    <2> QED
      BY <2>11, <2>12, <2>13, <2>14 DEF BytesRight
  <1>9. Cleanup \/ (\E c \in Connections : HangUp(c)) \/ UNCHANGED vars
          => UNCHANGED <<heap, buf, len, sends, port, job, out>>
    BY DEF Cleanup, HangUp, vars, contextVars, netVars
  <1> QED
    BY <1>1, <1>2, <1>3, <1>4, <1>5, <1>6, <1>7, <1>8, <1>9
    DEF Next, WorkerStep, KernelStep

-------------------------------------------------------------------------------
(* Every step of Transmission is one of Delivery, or changes nothing of    *)
(* it.                                                                     *)

LEMMA DeliveryInit == Init => D!Init
  <1> SUFFICES ASSUME Init PROVE D!Init
    OBVIOUS
  <1>1. \A k \in Contexts : StatusOf(k) = "unsent"
    BY DEF Init, StatusOf
  <1> QED
    BY <1>1 DEF Init, D!Init

LEMMA Unmoved ==
  ASSUME UNCHANGED <<length, out, heap, lost>>
  PROVE  UNCHANGED D!vars
  <1>1. \A k \in Contexts : StatusOf(k)' = StatusOf(k)
    BY DEF StatusOf
  <1> QED
    BY <1>1 DEF D!vars

LEMMA StartStep ==
  ASSUME TypeOK, Holding, NEW k \in Contexts, NEW n \in Lengths,
         NEW c \in Connections \cup {NULL}, NEW up \in BOOLEAN, up => c # NULL,
         CreateTicket(k, n, c), WSASend(k, c, up), UNCHANGED out
  PROVE  D!Start(k, n)
  <1> DEFINE status == [j \in Contexts |-> StatusOf(j)]
  <1>1. heap[k] = "none" /\ k \notin lost
    BY DEF CreateTicket, Holding, Held
  <1>2. /\ heap' = [heap EXCEPT ![k] = "live"]
        /\ length' = [length EXCEPT ![k] = n]
        /\ \A j \in Contexts \ {k} : j \in lost' <=> j \in lost
    BY DEF CreateTicket, WSASend
  <1>3. \A j \in Contexts \ {k} : StatusOf(j)' = StatusOf(j)
    BY <1>2 DEF StatusOf, TypeOK
  <1>4. StatusOf(k) = "unsent" /\ StatusOf(k)' \in {"sending", "lost"}
    BY <1>1, <1>2 DEF StatusOf, TypeOK
  <1>5. status' = [status EXCEPT ![k] = StatusOf(k)']
    BY <1>3
  <1> QED
    BY <1>2, <1>4, <1>5 DEF D!Start

(* The status of one packet, which was being sent, changes.                *)
LEMMA StatusStep ==
  ASSUME TypeOK, NEW k \in Contexts, heap[k] = "live", k \notin lost,
         NEW s, StatusOf(k)' = s,
         \A j \in Contexts \ {k} : /\ heap'[j] = heap[j]
                                   /\ j \in lost' <=> j \in lost
  PROVE  /\ StatusOf(k) = "sending"
         /\ [j \in Contexts |-> StatusOf(j)]'
              = [[j \in Contexts |-> StatusOf(j)] EXCEPT ![k] = s]
  <1>1. \A j \in Contexts \ {k} : StatusOf(j)' = StatusOf(j)
    BY DEF StatusOf
  <1>2. StatusOf(k) = "sending"
    BY DEF StatusOf
  <1> QED
    BY <1>1, <1>2

LEMMA DeliveryNext ==
  TypeOK /\ Holding /\ BytesRight /\ [Next]_vars => [D!Next]_(D!vars)
  <1> SUFFICES ASSUME TypeOK, Holding, BytesRight, [Next]_vars
               PROVE  [D!Next]_(D!vars)
    OBVIOUS
  <1> DEFINE status == [j \in Contexts |-> StatusOf(j)]
  <1>1. ASSUME NEW k \in Contexts, NEW n \in Lengths, NEW p \in Places,
               NEW c \in Connections, Accept(p, c, k, n)
        PROVE  D!Next
    <2>1. c # NULL
      BY TransmissionAssumption
    <2>2. D!Start(k, n)
      BY <1>1, <2>1, StartStep DEF Accept, netVars
    <2> QED
      BY <2>2 DEF D!Next
  <1>2. ASSUME NEW k \in Contexts, NEW n \in Lengths, Answer(k, n)
        PROVE  D!Next
    <2>1. mySocket[Key] \in Connections \cup {NULL}
      BY KeyIsPlace DEF TypeOK
    <2>2. D!Start(k, n)
      BY <1>2, <2>1, StartStep DEF Answer, IsUp, netVars
    <2> QED
      BY <2>2 DEF D!Next
  <1>3. ASSUME NEW w \in Workers, SendRest(w)
        PROVE  [D!Next]_(D!vars)
    <2> DEFINE c == mySocket[Key]
    <2>0. PICK k \in Contexts : k = job[w].context
      BY <1>3, HandledContext DEF SendRest, Handling
    <2>1. /\ heap[k] = "live" /\ k \notin lost
          /\ UNCHANGED <<heap, length, out>> /\ WSASend(k, c, IsUp(c))
      BY <1>3, <2>0, HandledContext DEF SendRest, Handling, netVars
    <2>2. CASE IsUp(c)
      BY <2>1, <2>2, Unmoved DEF WSASend
    <2>3. CASE ~ IsUp(c)
      <3>1. lost' = lost \cup {k}
        BY <2>1, <2>3 DEF WSASend
      <3> HIDE DEF c
      <3>2. StatusOf(k)' = "lost"
        BY <2>1, <3>1 DEF StatusOf
      <3>3. StatusOf(k) = "sending" /\ status' = [status EXCEPT ![k] = "lost"]
        BY <2>1, <3>1, <3>2, StatusStep
      <3>4. D!Lose(k)
        BY <2>1, <3>3 DEF D!Lose
      <3> QED
        BY <2>1, <3>4 DEF D!Next
    <2> QED
      BY <2>2, <2>3
  <1>4. ASSUME NEW w \in Workers, Sent(w)
        PROVE  D!Next
    <2>0. PICK k \in Contexts : k = job[w].context
      BY <1>4, HandledContext DEF Sent, Handling
    <2>1. /\ heap[k] = "live" /\ k \notin lost
          /\ job[w] \in Completions
          /\ UNCHANGED <<length, out, lost>> /\ heap' = [heap EXCEPT ![k] = "freed"]
      BY <1>4, <2>0, HandledContext DEF Sent, Handling, netVars, historyVars
    <2>2. out[k] = D!First(buf[k] + job[w].bytes) /\ len[k] - job[w].bytes = 0
      BY <1>4, <2>0 DEF BytesRight, CompletionRight, Busy, Sent, Handling, Left
    <2>3. out[k] = D!First(length[k])
      <3>1. buf[k] + job[w].bytes = length[k]
        BY <2>0, <2>1, <2>2 DEF TypeOK, Completions
      <3> QED
        BY <2>2, <3>1
    <2>4. StatusOf(k)' = "done"
      BY <2>1 DEF StatusOf, TypeOK
    <2>5. StatusOf(k) = "sending" /\ status' = [status EXCEPT ![k] = "done"]
      BY <2>1, <2>4, StatusStep DEF TypeOK
    <2>6. D!Finish(k)
      BY <2>1, <2>3, <2>5 DEF D!Finish
    <2> QED
      BY <2>1, <2>6 DEF D!Next
  <1>5. ASSUME NEW w \in Workers, SendFailed(w)
        PROVE  D!Next
    <2>0. PICK k \in Contexts : k = job[w].context
      BY <1>5, HandledContext DEF SendFailed, Handling
    <2>1. /\ heap[k] = "live" /\ k \notin lost
          /\ UNCHANGED <<length, out, heap>> /\ lost' = lost \cup {k}
      BY <1>5, <2>0, HandledContext DEF SendFailed, Handling, netVars, contextVars
    <2>2. StatusOf(k)' = "lost"
      BY <2>1 DEF StatusOf
    <2>3. StatusOf(k) = "sending" /\ status' = [status EXCEPT ![k] = "lost"]
      BY <2>1, <2>2, StatusStep
    <2>4. D!Lose(k)
      BY <2>1, <2>3 DEF D!Lose
    <2> QED
      BY <2>1, <2>4 DEF D!Next
  <1>6. ASSUME NEW c \in Connections, sends[c] # <<>>,
               NEW n \in 1..len[Head(sends[c])], Transmit(c, n)
        PROVE  D!Next
    <2> DEFINE k == Head(sends[c])
    <2>1. /\ sends' = [sends EXCEPT ![c] = Tail(@)]
          /\ UNCHANGED <<heap, length, lost>>
          /\ out' = [out EXCEPT ![k] = out[k] \o [i \in 1..n |-> buf[k] + i - 1]]
      BY <1>6 DEF Transmit, contextVars
    <2>2. k \in Contexts /\ InKernel(k) /\ n \in 1..len[k]
      BY <1>6, <2>1, KernelGives DEF Holding, Unique
    <2> HIDE DEF k
    <2>3. /\ heap[k] = "live" /\ k \notin lost /\ out[k] = D!First(buf[k])
      BY <2>2 DEF Holding, Held, BytesRight
    <2>4. n \in Nat /\ buf[k] \in Nat /\ buf[k] + n \in 1..length[k]
      BY <2>2 DEF TypeOK
    <2>5. out' = [out EXCEPT ![k] = D!First(buf[k] + n)]
      BY <2>1, <2>3, <2>4, FirstMore
    <2>6. Len(out[k]) < buf[k] + n
      BY <2>2, <2>3, <2>4 DEF D!First
    <2>7. \A j \in Contexts : StatusOf(j)' = StatusOf(j)
      BY <2>1 DEF StatusOf
    <2>8. StatusOf(k) = "sending"
      BY <2>3 DEF StatusOf
    <2>9. D!Pass(k, buf[k] + n)
      BY <2>1, <2>2, <2>5, <2>6, <2>7, <2>8 DEF D!Pass
    <2> QED
      BY <2>2, <2>4, <2>9 DEF D!Next
  <1>7. \/ \E w \in Workers : Dequeue(w)
        \/ \E c \in Connections : Abort(c) \/ HangUp(c)
        \/ Cleanup
        \/ UNCHANGED vars
        => UNCHANGED D!vars
    BY Unmoved DEF Dequeue, Abort, HangUp, Cleanup, vars, contextVars, netVars,
                   historyVars
  <1> QED
    BY <1>1, <1>2, <1>3, <1>4, <1>5, <1>6, <1>7
    DEF Next, WorkerStep, KernelStep

(* The bytes of each packet go out in order, none twice and none left out. *)
THEOREM Implements == Spec => ImplementsDelivery
  BY InitType, NextType, InitHolding, NextHolding, InitBytes, NextBytes,
     DeliveryInit, DeliveryNext, PTL
  DEF Spec, ImplementsDelivery, D!Spec

-------------------------------------------------------------------------------
(* Whole.  What holds of the sends outstanding, so that a packet that is   *)
(* not cut comes to the wire in its turn.                                  *)

InWire(k, c)   == \E i \in 1..Len(wire[c]) : wire[c][i] = k
Ahead(k, c, i) == \E h \in 1..i - 1 : sends[c][h] = k
On(k, c)       == \E i \in 1..Len(sends[c]) : sends[c][i] = k

(* Contexts are taken in turn, and one not taken is nowhere.               *)
InTurn ==
  /\ \A j, k \in Contexts : j < k /\ heap[j] = "none" => heap[k] = "none"
  /\ \A k \in Contexts : heap[k] = "none" =>
       \A c \in Connections : target[k] # c /\ ~ InWire(k, c)

(* A context of which some bytes went out is one cut, and so is one whose  *)
(* completion leaves some.                                                 *)
CutRight(e, l, cutSet) == e.ok /\ e.bytes < l[e.context] => e.context \in cutSet

CutKnown ==
  /\ \A k \in Contexts : buf[k] > 0 => k \in cut
  /\ \A i \in 1..Len(port) : CutRight(port[i], len, cut)
  /\ \A w \in Busy : CutRight(job[w], len, cut)

(* A connection nobody accepted has nothing.                               *)
NewEmpty ==
  \A c \in Connections : link[c] = "new" =>
    /\ sends[c] = <<>>
    /\ \A k \in Contexts : target[k] # c
    /\ \A p \in Places : mySocket[p] # c

(* While a connection is up, what was sent on it has gone out on it or is  *)
(* outstanding on it, and what has not begun to go out is outstanding in   *)
(* order.                                                                  *)
Fresh ==
  \A c \in Connections : \A i \in 1..Len(sends[c]) :
    LET k == sends[c][i] IN
    buf[k] = 0 =>
      /\ target[k] = c
      /\ link[c] = "up" =>
           \A j \in Contexts : target[j] = c =>
             (j < k <=> InWire(j, c) \/ Ahead(j, c, i))

Kept ==
  \A c \in Connections : link[c] = "up" =>
    \A k \in Contexts : target[k] = c => InWire(k, c) \/ On(k, c)

Ordered == InTurn /\ CutKnown /\ NewEmpty /\ Fresh /\ Kept /\ InOrder

LEMMA InitOrdered == Init => Ordered
  <1> SUFFICES ASSUME Init PROVE Ordered
    OBVIOUS
  <1>1. /\ \A c \in Connections : wire[c] = <<>> /\ sends[c] = <<>> /\ link[c] = "new"
        /\ \A k \in Contexts : target[k] = NULL /\ buf[k] = 0
        /\ \A p \in Places : mySocket[p] = NULL
        /\ port = <<>> /\ Busy = {}
    BY DEF Init, Busy
  <1>2. InTurn
    BY <1>1, TransmissionAssumption DEF InTurn, InWire, Init
  <1>3. CutKnown
    BY <1>1 DEF CutKnown
  <1>4. NewEmpty
    BY <1>1, TransmissionAssumption DEF NewEmpty
  <1>5. Fresh /\ Kept /\ InOrder
    BY <1>1 DEF Fresh, Kept, InOrder
  <1> QED
    BY <1>2, <1>3, <1>4, <1>5 DEF Ordered

(* Where the contexts of a connection are after a send.                    *)
LEMMA SendPlaces ==
  ASSUME TypeOK, NEW k \in Contexts, NEW c \in Connections \cup {NULL},
         NEW up \in BOOLEAN, up => c # NULL, WSASend(k, c, up)
  PROVE  /\ \A d \in Connections : \A i \in 1..Len(sends[d]) :
              i \in 1..Len(sends'[d]) /\ sends'[d][i] = sends[d][i]
         /\ \A d \in Connections : \A i \in 1..Len(sends'[d]) :
              \/ i \in 1..Len(sends[d])
              \/ up /\ d = c /\ i = Len(sends[d]) + 1 /\ sends'[d][i] = k
         /\ up => Len(sends[c]) + 1 \in 1..Len(sends'[c])
                  /\ sends'[c][Len(sends[c]) + 1] = k
  <1>1. CASE up
    <2>0. c \in Connections
      BY <1>1
    <2>1. sends' = [sends EXCEPT ![c] = Append(sends[c], k)]
      BY <1>1 DEF WSASend
    <2>2. \A d \in Connections \ {c} : sends'[d] = sends[d]
      BY <2>1 DEF TypeOK
    <2>3. sends[c] \in Seq(Contexts)
      BY <2>0 DEF TypeOK
    <2>4. /\ Len(sends'[c]) = Len(sends[c]) + 1
          /\ sends'[c][Len(sends[c]) + 1] = k
          /\ \A i \in 1..Len(sends[c]) : sends'[c][i] = sends[c][i]
      BY <2>0, <2>1, <2>3 DEF TypeOK
    <2> QED
      BY <1>1, <2>2, <2>3, <2>4
  <1>2. CASE ~ up
    BY <1>2 DEF WSASend
  <1> QED
    BY <1>1, <1>2

(* A new context, sent at once.                                            *)
LEMMA NewOrdered ==
  ASSUME TypeOK, TypeOK', Holding, Ordered, NEW k \in Contexts, NEW n \in Lengths,
         NEW c \in Connections \cup {NULL}, NEW up \in BOOLEAN, up => c # NULL,
         CreateTicket(k, n, c), WSASend(k, c, up),
         UNCHANGED <<port, job, wire, cut>>,
         \A d \in Connections \ {c} : link'[d] = link[d],
         c # NULL => /\ link'[c] # "new"
                     /\ up <=> link'[c] = "up"
                     /\ link'[c] = link[c] \/ link[c] = "new",
         \A p \in Places : mySocket'[p] \in {mySocket[p], c}
  PROVE  Ordered'
  <1> USE DEF Ordered
  <1>1. /\ heap[k] = "none" /\ \A j \in 1..k - 1 : heap[j] # "none"
        /\ heap'[k] = "live" /\ target'[k] = c /\ buf'[k] = 0
        /\ \A j \in Contexts \ {k} :
             /\ heap'[j] = heap[j] /\ target'[j] = target[j]
             /\ buf'[j] = buf[j] /\ len'[j] = len[j]
    BY DEF CreateTicket, TypeOK
  <1>2. \A j \in Contexts : heap[j] # "none" => j < k
    BY <1>1 DEF InTurn, Contexts
  <1>3. /\ ~ InKernel(k) /\ ~ InPort(k) /\ ~ AtWorker(k)
        /\ \A d \in Connections : ~ InWire(k, d) /\ target[k] # d
    BY <1>1 DEF Holding, Held, InTurn
  <1>4. /\ \A d \in Connections : \A i \in 1..Len(sends[d]) :
             i \in 1..Len(sends'[d]) /\ sends'[d][i] = sends[d][i]
        /\ \A d \in Connections : \A i \in 1..Len(sends'[d]) :
             \/ i \in 1..Len(sends[d])
             \/ up /\ d = c /\ i = Len(sends[d]) + 1 /\ sends'[d][i] = k
        /\ up => Len(sends[c]) + 1 \in 1..Len(sends'[c])
                 /\ sends'[c][Len(sends[c]) + 1] = k
    BY SendPlaces
  <1>5. \A d \in Connections, j \in Contexts : InWire(j, d)' <=> InWire(j, d)
    BY DEF InWire
  <1>6. \A j \in Contexts, d \in Connections : InWire(j, d) => heap[j] # "none"
    BY DEF InTurn
  <1>7. \A d \in Connections : \A i \in 1..Len(sends[d]) :
          /\ sends[d][i] \in Contexts \ {k}
          /\ heap[sends[d][i]] # "none"
    <2> SUFFICES ASSUME NEW d \in Connections, NEW i \in 1..Len(sends[d])
                 PROVE  /\ sends[d][i] \in Contexts \ {k}
                        /\ heap[sends[d][i]] # "none"
      OBVIOUS
    <2>1. sends[d] \in Seq(Contexts)
      BY DEF TypeOK
    <2>2. sends[d][i] \in Contexts /\ InKernel(sends[d][i])
      BY <2>1 DEF InKernel
    <2> QED
      BY <1>3, <2>2 DEF Holding, Held
  <1>8. InTurn'
    BY <1>1, <1>2, <1>5 DEF InTurn, Contexts
  <1>9. CutKnown'
    <2>1. \A e \in Completions : e.context # k /\ CutRight(e, len, cut)
                                   => CutRight(e, len', cut')
      BY <1>1 DEF CutRight, Completions
    <2>2. \A i \in 1..Len(port) : port[i] \in Completions /\ port[i].context # k
      BY <1>3 DEF TypeOK, InPort
    <2>3. \A w \in Busy : job[w] \in Completions /\ job[w].context # k
      BY <1>3 DEF TypeOK, AtWorker, Busy
    <2>4. \A j \in Contexts : buf'[j] > 0 => j \in cut'
      BY <1>1 DEF CutKnown
    <2>5. Busy' = Busy
      BY DEF Busy
    <2> QED
      BY <2>1, <2>2, <2>3, <2>4, <2>5 DEF CutKnown
  <1>10. NewEmpty'
    <2> SUFFICES ASSUME NEW d \in Connections, link'[d] = "new"
                 PROVE  /\ sends'[d] = <<>>
                        /\ \A j \in Contexts : target'[j] # d
                        /\ \A p \in Places : mySocket'[p] # d
      BY DEF NewEmpty
    <2>1. d # c /\ link[d] = "new"
      BY TransmissionAssumption
    <2>2. sends'[d] = sends[d]
      BY <2>1 DEF WSASend, TypeOK
    <2> QED
      BY <1>1, <2>1, <2>2 DEF NewEmpty
  <1>11. Kept'
    <2> SUFFICES ASSUME NEW d \in Connections, link'[d] = "up",
                        NEW j \in Contexts, target'[j] = d
                 PROVE  InWire(j, d)' \/ On(j, d)'
      BY DEF Kept
    <2>1. CASE j = k
      BY <1>1, <1>4, <2>1, TransmissionAssumption DEF On
    <2>2. CASE j # k
      <3>1. target[j] = d /\ link[d] = "up"
        BY <1>1, <2>2, TransmissionAssumption DEF NewEmpty
      <3>2. InWire(j, d) \/ On(j, d)
        BY <3>1 DEF Kept
      <3>3. On(j, d) => On(j, d)'
        BY <1>4 DEF On
      <3> QED
        BY <1>5, <3>2, <3>3
    <2> QED
      BY <2>1, <2>2
  <1>12. Fresh'
    <2> SUFFICES ASSUME NEW d \in Connections, NEW i \in 1..Len(sends'[d]),
                        buf'[sends'[d][i]] = 0
                 PROVE  /\ target'[sends'[d][i]] = d
                        /\ link'[d] = "up" =>
                             \A j \in Contexts : target'[j] = d =>
                               (j < sends'[d][i] <=> InWire(j, d)' \/ Ahead(j, d, i)')
      BY DEF Fresh
    <2>1. CASE i \in 1..Len(sends[d])
      <3> DEFINE q == sends[d][i]
      <3>1. /\ q = sends'[d][i] /\ q \in Contexts \ {k} /\ heap[q] # "none"
            /\ buf[q] = 0 /\ q < k
        BY <1>1, <1>2, <1>4, <1>7, <2>1
      <3>2. target[q] = d
        BY <2>1, <3>1 DEF Fresh
      <3>3. target'[q] = d
        BY <1>1, <3>1, <3>2
      <3>4. \A j \in Contexts : Ahead(j, d, i)' <=> Ahead(j, d, i)
        <4>1. Len(sends[d]) \in Nat
          BY DEF TypeOK
        <4>2. \A h \in 1..i - 1 : h \in 1..Len(sends[d])
          BY <2>1, <4>1
        <4>3. \A h \in 1..i - 1 : sends'[d][h] = sends[d][h]
          BY <1>4, <4>2
        <4> QED
          BY <4>3 DEF Ahead
      <3>5. ~ Ahead(k, d, i)
        BY <1>7, <2>1 DEF Ahead
      <3>6. ASSUME link'[d] = "up", NEW j \in Contexts, target'[j] = d
            PROVE  j < q <=> InWire(j, d)' \/ Ahead(j, d, i)'
        <4>1. link[d] = "up"
          BY <2>1, <3>6, TransmissionAssumption DEF NewEmpty
        <4>2. CASE j = k
          BY <1>3, <1>5, <3>1, <3>4, <3>5, <4>2 DEF Contexts
        <4>3. CASE j # k
          <5>1. target[j] = d
            BY <1>1, <3>6, <4>3
          <5>2. j < q <=> InWire(j, d) \/ Ahead(j, d, i)
            BY <2>1, <3>1, <4>1, <5>1 DEF Fresh
          <5> QED
            BY <1>5, <3>4, <5>2
        <4> QED
          BY <4>2, <4>3
      <3> QED
        BY <3>1, <3>3, <3>6
    <2>2. CASE up /\ d = c /\ i = Len(sends[d]) + 1 /\ sends'[d][i] = k
      <3>1. target'[k] = d
        BY <1>1, <2>2
      <3>2. Len(sends[d]) \in Nat
        BY DEF TypeOK
      <3>3. \A j \in Contexts : Ahead(j, d, i)' <=> On(j, d)
        BY <1>4, <2>2, <3>2 DEF Ahead, On
      <3>4. ~ On(k, d)
        BY <1>7 DEF On
      <3>5. ASSUME NEW j \in Contexts, target'[j] = d
            PROVE  j < k <=> InWire(j, d)' \/ Ahead(j, d, i)'
        <4>1. CASE j = k
          BY <1>3, <1>5, <3>3, <3>4, <4>1 DEF Contexts
        <4>2. CASE j # k
          <5>1. target[j] = d
            BY <1>1, <3>5, <4>2
          <5>2. heap[j] # "none" /\ link[d] # "new"
            BY <5>1 DEF InTurn, NewEmpty
          <5>3. j < k /\ link[d] = "up"
            BY <1>2, <2>2, <5>2
          <5> QED
            BY <1>5, <3>3, <5>1, <5>3 DEF Kept
        <4> QED
          BY <4>1, <4>2
      <3> QED
        BY <2>2, <3>1, <3>5
    <2> QED
      BY <1>4, <2>1, <2>2
  <1>13. InOrder'
    <2> SUFFICES ASSUME NEW d \in Connections, NEW i \in 1..Len(wire[d]),
                        wire[d][i] \notin cut
                 PROVE  /\ target'[wire[d][i]] = d
                        /\ \A j \in Contexts : target'[j] = d =>
                             (j < wire[d][i] <=> \E h \in 1..i - 1 : wire[d][h] = j)
      BY DEF InOrder
    <2> DEFINE q == wire[d][i]
    <2>0. wire[d] \in Seq(Contexts)
      BY DEF TypeOK
    <2>1. q \in Contexts /\ InWire(q, d)
      BY <2>0 DEF InWire
    <2>2. q # k /\ q < k
      BY <1>2, <1>3, <1>6, <2>1
    <2>3. \A h \in 1..i - 1 : wire[d][h] # k
      <3>1. \A h \in 1..i - 1 : h \in 1..Len(wire[d])
        BY <2>0
      <3> QED
        BY <1>3, <3>1 DEF InWire
    <2>4. /\ target[q] = d
          /\ \A j \in Contexts : target[j] = d =>
               (j < q <=> \E h \in 1..i - 1 : wire[d][h] = j)
      BY DEF InOrder
    <2> HIDE DEF q
    <2>5. ~ (k < q)
      BY <2>1, <2>2 DEF Contexts
    <2>6. ASSUME NEW j \in Contexts, target'[j] = d
          PROVE  j < q <=> \E h \in 1..i - 1 : wire[d][h] = j
      BY <1>1, <2>3, <2>4, <2>5, <2>6
    <2>7. target'[q] = d
      BY <1>1, <2>1, <2>2, <2>4
    <2> QED
      BY <2>6, <2>7 DEF q
  <1> QED
    BY <1>8, <1>9, <1>10, <1>11, <1>12, <1>13

(* The rest of a send.                                                     *)
LEMMA RestOrdered ==
  ASSUME TypeOK, Holding, BytesRight, Ordered, NEW w \in Workers, SendRest(w)
  PROVE  Ordered'
  <1> USE DEF Ordered
  <1> DEFINE c  == mySocket[Key]
             b  == job[w].bytes
             up == IsUp(c)
  <1>1. PICK k \in Contexts : k = job[w].context
    BY HandledContext DEF SendRest, Handling
  <1>2. /\ job[w] # NULL /\ job[w].ok /\ job' = [job EXCEPT ![w] = NULL]
        /\ UNCHANGED <<mySocket, link, heap, port, wire, target, cut>>
        /\ WSASend(k, c, up) /\ len[k] - b > 0
        /\ buf' = [buf EXCEPT ![k] = buf[k] + b]
        /\ len' = [len EXCEPT ![k] = len[k] - b]
    BY <1>1 DEF SendRest, Handling, Left, netVars
  <1>3. /\ job[w] \in Completions /\ ~ InKernel(k) /\ ~ InPort(k)
        /\ heap[k] = "live"
    BY <1>1, <1>2, HandledContext
  <1>4. c \in Connections \cup {NULL} /\ up \in BOOLEAN
    BY KeyIsPlace DEF TypeOK, IsUp
  <1>5. b \in 1..len[k] /\ k \in cut
    <2>1. CompletionRight(job[w], out, buf, len) /\ CutRight(job[w], len, cut)
      BY <1>2 DEF BytesRight, CutKnown, Busy
    <2>2. b \in 1..len[k] /\ len[k] \in Nat
      BY <1>1, <1>2, <2>1 DEF CompletionRight, TypeOK
    <2>3. b < len[k]
      BY <1>2, <2>2
    <2> QED
      BY <1>1, <1>2, <2>1, <2>2, <2>3 DEF CutRight
  <1>6. /\ buf'[k] > 0
        /\ \A j \in Contexts \ {k} : buf'[j] = buf[j] /\ len'[j] = len[j]
    BY <1>2, <1>5 DEF TypeOK
  <1>7. ASSUME NEW v \in Busy'
        PROVE  /\ v \in Busy /\ job'[v] = job[v]
               /\ job[v] \in Completions /\ job[v].context # k
    <2>1. v # w /\ v \in Busy /\ w \in Busy /\ job'[v] = job[v]
      BY <1>2 DEF Busy, TypeOK
    <2> QED
      BY <1>1, <2>1 DEF Holding, Unique, WorkerUnique, Busy, TypeOK
  <1> HIDE DEF c, b, up
  <1>8. up => c # NULL /\ link[c] = "up"
    BY DEF up, IsUp
  <1>9. /\ \A d \in Connections : \A i \in 1..Len(sends[d]) :
             i \in 1..Len(sends'[d]) /\ sends'[d][i] = sends[d][i]
        /\ \A d \in Connections : \A i \in 1..Len(sends'[d]) :
             \/ i \in 1..Len(sends[d])
             \/ up /\ d = c /\ i = Len(sends[d]) + 1 /\ sends'[d][i] = k
    BY <1>2, <1>4, <1>8, SendPlaces
  <1>10. \A d \in Connections, j \in Contexts : InWire(j, d)' <=> InWire(j, d)
    BY <1>2 DEF InWire
  <1>11. InTurn'
    BY <1>2, <1>10 DEF InTurn
  <1>12. CutKnown'
    <2>1. \A e \in Completions : e.context # k /\ CutRight(e, len, cut)
                                   => CutRight(e, len', cut')
      BY <1>2, <1>6 DEF CutRight, Completions
    <2>2. \A i \in 1..Len(port) : port[i] \in Completions /\ port[i].context # k
      BY <1>3 DEF TypeOK, InPort
    <2>3. \A j \in Contexts : buf'[j] > 0 => j \in cut'
      BY <1>2, <1>5, <1>6 DEF CutKnown
    <2>4. ASSUME NEW v \in Busy' PROVE CutRight(job'[v], len', cut')
      BY <1>7, <2>1 DEF CutKnown
    <2>5. \A i \in 1..Len(port') : CutRight(port'[i], len', cut')
      BY <1>2, <2>1, <2>2 DEF CutKnown
    <2> QED
      BY <2>3, <2>4, <2>5 DEF CutKnown
  <1>13. NewEmpty'
    <2>1. \A d \in Connections : link[d] = "new" => sends'[d] = sends[d]
      BY <1>2, <1>8 DEF WSASend, TypeOK
    <2> QED
      BY <1>2, <2>1 DEF NewEmpty
  <1>14. Kept'
    <2>1. \A d \in Connections, j \in Contexts : On(j, d) => On(j, d)'
      BY <1>9 DEF On
    <2> QED
      BY <1>2, <1>10, <2>1 DEF Kept
  <1>15. Fresh'
    <2> SUFFICES ASSUME NEW d \in Connections, NEW i \in 1..Len(sends'[d]),
                        buf'[sends'[d][i]] = 0
                 PROVE  /\ target'[sends'[d][i]] = d
                        /\ link'[d] = "up" =>
                             \A j \in Contexts : target'[j] = d =>
                               (j < sends'[d][i] <=> InWire(j, d)' \/ Ahead(j, d, i)')
      BY DEF Fresh
    <2> DEFINE q == sends[d][i]
    <2>1. i \in 1..Len(sends[d]) /\ q = sends'[d][i]
      BY <1>6, <1>9
    <2>2. sends[d] \in Seq(Contexts)
      BY DEF TypeOK
    <2>3. q \in Contexts /\ q # k
      BY <1>6, <2>1, <2>2
    <2>4. buf[q] = 0
      BY <1>6, <2>1, <2>3
    <2>5. \A j \in Contexts : Ahead(j, d, i)' <=> Ahead(j, d, i)
      <3>1. \A h \in 1..i - 1 : h \in 1..Len(sends[d])
        BY <2>1, <2>2
      <3>2. \A h \in 1..i - 1 : sends'[d][h] = sends[d][h]
        BY <1>9, <3>1
      <3> QED
        BY <3>2 DEF Ahead
    <2>6. /\ target[q] = d
          /\ link[d] = "up" =>
               \A j \in Contexts : target[j] = d =>
                 (j < q <=> InWire(j, d) \/ Ahead(j, d, i))
      BY <2>1, <2>4 DEF Fresh
    <2> HIDE DEF q
    <2> QED
      BY <1>2, <1>10, <2>1, <2>5, <2>6
  <1>16. InOrder'
    BY <1>2 DEF InOrder
  <1> QED
    BY <1>11, <1>12, <1>13, <1>14, <1>15, <1>16

(* What changes nothing of the packets but that a context goes from one    *)
(* place to another, or a connection goes down.                            *)
LEMMA QuietOrdered ==
  ASSUME TypeOK, Ordered, UNCHANGED <<buf, len, sends, wire, target, cut>>,
         \A k \in Contexts : (heap[k] = "none") <=> (heap'[k] = "none"),
         \A i \in 1..Len(port') : CutRight(port'[i], len, cut),
         \A w \in Busy' : CutRight(job'[w], len, cut),
         \A d \in Connections : link'[d] = link[d]
                                \/ (link[d] # "new" /\ link'[d] = "down"),
         \A p \in Places : mySocket'[p] \in {mySocket[p], NULL}
  PROVE  Ordered'
  <1> USE DEF Ordered
  <1>1. \A d \in Connections, j \in Contexts :
          (InWire(j, d)' <=> InWire(j, d)) /\ (On(j, d)' <=> On(j, d))
    BY DEF InWire, On
  <1>2. InTurn'
    BY <1>1 DEF InTurn
  <1>3. CutKnown'
    BY DEF CutKnown
  <1>4. NewEmpty'
    BY TransmissionAssumption DEF NewEmpty
  <1>5. Kept'
    BY <1>1 DEF Kept
  <1>6. Fresh'
    <2> SUFFICES ASSUME NEW d \in Connections, NEW i \in 1..Len(sends[d]),
                        buf[sends[d][i]] = 0
                 PROVE  /\ target[sends[d][i]] = d
                        /\ link'[d] = "up" =>
                             \A j \in Contexts : target[j] = d =>
                               (j < sends[d][i] <=> InWire(j, d)' \/ Ahead(j, d, i)')
      BY DEF Fresh
    <2>1. \A j \in Contexts : Ahead(j, d, i)' <=> Ahead(j, d, i)
      BY DEF Ahead
    <2>2. link'[d] = "up" => link[d] = "up"
      OBVIOUS
    <2> QED
      BY <1>1, <2>1, <2>2 DEF Fresh
  <1>7. InOrder'
    BY DEF InOrder
  <1> QED
    BY <1>2, <1>3, <1>4, <1>5, <1>6, <1>7

(* Where the contexts of a connection are when the kernel gave up the      *)
(* first.                                                                  *)
LEMMA TailPlaces ==
  ASSUME TypeOK, NEW c \in Connections, sends[c] # <<>>,
         sends' = [sends EXCEPT ![c] = Tail(@)]
  PROVE  /\ \A d \in Connections \ {c} : sends'[d] = sends[d]
         /\ Len(sends[c]) \in Nat \ {0}
         /\ sends[c][1] = Head(sends[c]) /\ Head(sends[c]) \in Contexts
         /\ Len(sends'[c]) = Len(sends[c]) - 1
         /\ \A i \in 1..Len(sends'[c]) :
              i + 1 \in 1..Len(sends[c]) /\ sends'[c][i] = sends[c][i + 1]
  <1>1. sends[c] \in Seq(Contexts) /\ sends'[c] = Tail(sends[c])
    BY DEF TypeOK
  <1>2. \A d \in Connections \ {c} : sends'[d] = sends[d]
    BY DEF TypeOK
  <1>3. /\ Len(sends[c]) \in Nat \ {0} /\ sends[c][1] = Head(sends[c])
        /\ Head(sends[c]) \in Contexts
    BY <1>1
  <1>4. /\ Len(Tail(sends[c])) = Len(sends[c]) - 1
        /\ \A i \in 1..Len(sends[c]) - 1 : Tail(sends[c])[i] = sends[c][i + 1]
    BY <1>1
  <1> DEFINE m == Len(sends[c])
             t == Tail(sends[c])
  <1>5. /\ m \in Nat /\ Len(t) = m - 1 /\ sends'[c] = t
        /\ \A i \in 1..m - 1 : t[i] = sends[c][i + 1]
    BY <1>1, <1>3, <1>4
  <1> HIDE DEF m, t
  <1>6. /\ Len(sends'[c]) = m - 1
        /\ \A i \in 1..m - 1 : i + 1 \in 1..m /\ sends'[c][i] = sends[c][i + 1]
    BY <1>5
  <1> QED
    BY <1>2, <1>3, <1>6 DEF m

(* A send outstanding on a connection that is down fails.                  *)
LEMMA AbortOrdered ==
  ASSUME TypeOK, Ordered, NEW c \in Connections, Abort(c)
  PROVE  Ordered'
  <1> USE DEF Ordered
  <1> DEFINE e == [context |-> Head(sends[c]), ok |-> FALSE, bytes |-> 0]
  <1>1. /\ link[c] = "down" /\ sends[c] # <<>>
        /\ sends' = [sends EXCEPT ![c] = Tail(@)]
        /\ port' = Append(port, e)
        /\ UNCHANGED <<mySocket, link, heap, buf, len, job, wire, target, cut>>
    BY DEF Abort, contextVars, netVars, historyVars
  <1>2. /\ \A d \in Connections \ {c} : sends'[d] = sends[d]
        /\ \A i \in 1..Len(sends'[c]) :
             i + 1 \in 1..Len(sends[c]) /\ sends'[c][i] = sends[c][i + 1]
    BY <1>1, TailPlaces
  <1>3. \A d \in Connections, j \in Contexts : InWire(j, d)' <=> InWire(j, d)
    BY <1>1 DEF InWire
  <1>4. InTurn'
    BY <1>1, <1>3 DEF InTurn
  <1>5. CutKnown'
    <2>1. \A i \in 1..Len(port') :
            \/ i \in 1..Len(port) /\ port'[i] = port[i]
            \/ port'[i] = e
      BY <1>1 DEF TypeOK
    <2>2. CutRight(e, len, cut)
      BY DEF CutRight
    <2> HIDE DEF e
    <2> QED
      BY <1>1, <2>1, <2>2 DEF CutKnown, Busy
  <1>6. NewEmpty'
    BY <1>1, <1>2 DEF NewEmpty
  <1>7. Kept'
    <2>1. \A d \in Connections \ {c}, j \in Contexts : On(j, d)' <=> On(j, d)
      BY <1>2 DEF On
    <2> QED
      BY <1>1, <1>3, <2>1 DEF Kept
  <1>8. Fresh'
    <2> SUFFICES ASSUME NEW d \in Connections, NEW i \in 1..Len(sends'[d]),
                        buf[sends'[d][i]] = 0
                 PROVE  /\ target[sends'[d][i]] = d
                        /\ link[d] = "up" =>
                             \A j \in Contexts : target[j] = d =>
                               (j < sends'[d][i] <=> InWire(j, d)' \/ Ahead(j, d, i)')
      BY <1>1 DEF Fresh
    <2>1. CASE d = c
      <3>1. i + 1 \in 1..Len(sends[c]) /\ sends'[c][i] = sends[c][i + 1]
        BY <1>2, <2>1
      <3> QED
        BY <1>1, <2>1, <3>1 DEF Fresh
    <2>2. CASE d # c
      <3>1. sends'[d] = sends[d] /\ \A j \in Contexts : Ahead(j, d, i)' <=> Ahead(j, d, i)
        BY <1>2, <2>2 DEF Ahead
      <3> QED
        BY <1>3, <3>1 DEF Fresh
    <2> QED
      BY <2>1, <2>2
  <1>9. InOrder'
    BY <1>1 DEF InOrder
  <1> QED
    BY <1>4, <1>5, <1>6, <1>7, <1>8, <1>9

(* Bytes of the first send of a connection go out.                         *)
LEMMA TransmitOrdered ==
  ASSUME TypeOK, Holding, BytesRight, Ordered, NEW c \in Connections,
         sends[c] # <<>>, NEW n \in 1..len[Head(sends[c])], Transmit(c, n)
  PROVE  Ordered'
  <1> USE DEF Ordered
  <1>1. PICK k \in Contexts : k = Head(sends[c]) /\ k = sends[c][1]
    BY DEF TypeOK
  <1> DEFINE e == [context |-> k, ok |-> TRUE, bytes |-> n]
  <1>2. /\ link[c] = "up"
        /\ sends' = [sends EXCEPT ![c] = Tail(@)]
        /\ port' = Append(port, e)
        /\ wire' = [wire EXCEPT ![c] = Append(wire[c], k)]
        /\ cut' = IF n < len[k] THEN cut \cup {k} ELSE cut
        /\ UNCHANGED <<mySocket, link, heap, buf, len, job, target>>
    BY <1>1 DEF Transmit, contextVars
  <1>3. /\ \A d \in Connections \ {c} : sends'[d] = sends[d]
        /\ Len(sends[c]) \in Nat \ {0}
        /\ Len(sends'[c]) = Len(sends[c]) - 1
        /\ \A i \in 1..Len(sends'[c]) :
             i + 1 \in 1..Len(sends[c]) /\ sends'[c][i] = sends[c][i + 1]
    BY <1>2, TailPlaces
  <1>4. /\ wire[c] \in Seq(Contexts) /\ Len(wire[c]) \in Nat
        /\ Len(wire'[c]) = Len(wire[c]) + 1
        /\ wire'[c][Len(wire[c]) + 1] = k
        /\ \A i \in 1..Len(wire[c]) : wire'[c][i] = wire[c][i]
        /\ \A d \in Connections \ {c} : wire'[d] = wire[d]
    <2>1. wire[c] \in Seq(Contexts) /\ wire'[c] = Append(wire[c], k)
      BY <1>2 DEF TypeOK
    <2> QED
      BY <1>2, <2>1 DEF TypeOK
  <1>5. InKernel(k) /\ heap[k] = "live"
    BY <1>1, <1>3 DEF InKernel, Holding, Held
  <1>6. ASSUME NEW j \in Contexts, NEW d \in Connections
        PROVE  InWire(j, d)' <=> InWire(j, d) \/ (d = c /\ j = k)
    <2>1. CASE d = c
      <3>1. 1..Len(wire'[c]) = (1..Len(wire[c])) \cup {Len(wire[c]) + 1}
        BY <1>4
      <3> QED
        BY <1>4, <2>1, <3>1 DEF InWire
    <2>2. CASE d # c
      BY <1>4, <2>2 DEF InWire
    <2> QED
      BY <2>1, <2>2
  <1>7. InTurn'
    BY <1>2, <1>5, <1>6 DEF InTurn
  <1>8. CutKnown'
    <2>1. \A f : CutRight(f, len, cut) => CutRight(f, len, cut')
      BY <1>2 DEF CutRight
    <2>2. CutRight(e, len, cut')
      BY <1>2 DEF CutRight
    <2>3. e \in Completions
      BY <1>1 DEF TypeOK, Completions
    <2> HIDE DEF e
    <2>4. \A i \in 1..Len(port') :
            \/ i \in 1..Len(port) /\ port'[i] = port[i]
            \/ port'[i] = e
      <3>1. port \in Seq(Completions) /\ port' = Append(port, e)
        BY <1>2 DEF TypeOK
      <3> QED
        BY <2>3, <3>1
    <2>5. \A i \in 1..Len(port') : CutRight(port'[i], len, cut')
      BY <2>1, <2>2, <2>4 DEF CutKnown
    <2>6. \A w \in Busy' : CutRight(job'[w], len, cut')
      BY <1>2, <2>1 DEF CutKnown, Busy
    <2>7. \A j \in Contexts : buf[j] > 0 => j \in cut'
      BY <1>2 DEF CutKnown
    <2> QED
      BY <1>2, <2>5, <2>6, <2>7 DEF CutKnown
  <1>9. NewEmpty'
    BY <1>2, <1>3 DEF NewEmpty
  <1>10. Kept'
    <2> SUFFICES ASSUME NEW d \in Connections, link[d] = "up",
                        NEW j \in Contexts, target[j] = d
                 PROVE  InWire(j, d)' \/ On(j, d)'
      BY <1>2 DEF Kept
    <2>1. InWire(j, d) \/ On(j, d)
      BY DEF Kept
    <2>2. CASE InWire(j, d) \/ (d = c /\ j = k)
      BY <1>6, <2>2
    <2>3. CASE On(j, d) /\ d # c
      BY <1>3, <2>3 DEF On
    <2>4. CASE On(j, d) /\ d = c /\ j # k
      <3>1. PICK i \in 1..Len(sends[c]) : sends[c][i] = j
        BY <2>4 DEF On
      <3>2. i - 1 \in 1..Len(sends'[c])
        BY <1>1, <1>3, <2>4, <3>1
      <3>3. sends'[c][i - 1] = j
        BY <1>3, <3>1, <3>2
      <3> QED
        BY <2>4, <3>2, <3>3 DEF On
    <2> QED
      BY <2>1, <2>2, <2>3, <2>4
  <1>11. Fresh'
    <2> SUFFICES ASSUME NEW d \in Connections, NEW i \in 1..Len(sends'[d]),
                        buf[sends'[d][i]] = 0
                 PROVE  /\ target[sends'[d][i]] = d
                        /\ link[d] = "up" =>
                             \A j \in Contexts : target[j] = d =>
                               (j < sends'[d][i] <=> InWire(j, d)' \/ Ahead(j, d, i)')
      BY <1>2 DEF Fresh
    <2>1. CASE d # c
      <3>1. sends'[d] = sends[d] /\ \A j \in Contexts : Ahead(j, d, i)' <=> Ahead(j, d, i)
        BY <1>3, <2>1 DEF Ahead
      <3> QED
        BY <1>6, <2>1, <3>1 DEF Fresh
    <2>2. CASE d = c
      <3>1. i + 1 \in 1..Len(sends[c]) /\ sends'[c][i] = sends[c][i + 1]
        BY <1>3, <2>2
      <3>2. ASSUME NEW j \in Contexts
            PROVE  Ahead(j, c, i + 1) <=> j = k \/ Ahead(j, c, i)'
        <4>1. i \in Nat \ {0} /\ i <= Len(sends'[c]) /\ Len(sends'[c]) \in Nat
          BY <1>3, <2>2
        <4>2. \A h \in 1..i - 1 : sends'[c][h] = sends[c][h + 1]
          <5>1. \A h \in 1..i - 1 : h \in 1..Len(sends'[c])
            BY <4>1
          <5> QED
            BY <1>3, <5>1
        <4>3. Ahead(j, c, i + 1) => j = k \/ Ahead(j, c, i)'
          <5> SUFFICES ASSUME NEW h \in 1..i, sends[c][h] = j, j # k
                       PROVE  Ahead(j, c, i)'
            BY <4>1 DEF Ahead
          <5>1. h - 1 \in 1..i - 1 /\ (h - 1) + 1 = h
            BY <1>1, <4>1
          <5>2. sends'[c][h - 1] = j
            BY <4>2, <5>1
          <5> QED
            BY <5>1, <5>2 DEF Ahead
        <4>4. Ahead(j, c, i)' => Ahead(j, c, i + 1)
          <5> SUFFICES ASSUME NEW h \in 1..i - 1, sends'[c][h] = j
                       PROVE  Ahead(j, c, i + 1)
            BY DEF Ahead
          <5>1. h + 1 \in 1..(i + 1) - 1 /\ sends[c][h + 1] = j
            BY <4>2, <4>1
          <5> QED
            BY <5>1 DEF Ahead
        <4>5. j = k => Ahead(j, c, i + 1)
          <5>1. 1 \in 1..(i + 1) - 1
            BY <4>1
          <5> QED
            BY <1>1, <5>1 DEF Ahead
        <4> QED
          BY <4>3, <4>4, <4>5
      <3>3. /\ target[sends[c][i + 1]] = c
            /\ \A j \in Contexts : target[j] = c =>
                 (j < sends[c][i + 1] <=> InWire(j, c) \/ Ahead(j, c, i + 1))
        BY <1>2, <2>2, <3>1 DEF Fresh
      <3> QED
        BY <1>6, <2>2, <3>1, <3>2, <3>3
    <2> QED
      BY <2>1, <2>2
  <1>12. InOrder'
    <2> SUFFICES ASSUME NEW d \in Connections, NEW i \in 1..Len(wire'[d]),
                        wire'[d][i] \notin cut'
                 PROVE  /\ target[wire'[d][i]] = d
                        /\ \A j \in Contexts : target[j] = d =>
                             (j < wire'[d][i] <=> \E h \in 1..i - 1 : wire'[d][h] = j)
      <3>1. target' = target
        BY <1>2
      <3> QED
        BY <3>1 DEF InOrder
    <2>1. CASE d # c
      BY <1>2, <1>4, <2>1 DEF InOrder
    <2>2. CASE d = c /\ i \in 1..Len(wire[c])
      <3>1. \A h \in 1..i : wire'[c][h] = wire[c][h]
        BY <1>4, <2>2
      <3>2. wire'[c][i] = wire[c][i] /\ wire[c][i] \notin cut
        BY <1>2, <2>2, <3>1
      <3>3. /\ target[wire[c][i]] = c
            /\ \A j \in Contexts : target[j] = c =>
                 (j < wire[c][i] <=> \E h \in 1..i - 1 : wire[c][h] = j)
        BY <2>2, <3>2 DEF InOrder
      <3>4. \A h \in 1..i - 1 : wire'[c][h] = wire[c][h]
        BY <2>2, <3>1
      <3> QED
        BY <2>2, <3>2, <3>3, <3>4
    <2>3. CASE d = c /\ i = Len(wire[c]) + 1
      <3>1. wire'[d][i] = k /\ k \notin cut
        BY <1>2, <1>4, <2>3
      <3>2. buf[k] = 0
        BY <3>1 DEF CutKnown, TypeOK
      <3>3. /\ target[k] = c
            /\ \A j \in Contexts : target[j] = c =>
                 (j < k <=> InWire(j, c) \/ Ahead(j, c, 1))
        BY <1>1, <1>2, <1>3, <3>2 DEF Fresh
      <3>4. \A j \in Contexts : ~ Ahead(j, c, 1)
        BY DEF Ahead
      <3>5. \A j \in Contexts :
              InWire(j, c) <=> \E h \in 1..i - 1 : wire'[c][h] = j
        BY <1>4, <2>3 DEF InWire
      <3> QED
        BY <2>3, <3>1, <3>3, <3>4, <3>5
    <2> QED
      <3>1. d = c => i \in 1..Len(wire[c]) \/ i = Len(wire[c]) + 1
        BY <1>4
      <3> QED
        BY <2>1, <2>2, <2>3, <3>1
  <1> QED
    BY <1>7, <1>8, <1>9, <1>10, <1>11, <1>12

LEMMA NextOrdered ==
  TypeOK /\ Holding /\ BytesRight /\ Ordered /\ [Next]_vars => Ordered'
  <1> SUFFICES ASSUME TypeOK, Holding, BytesRight, Ordered, [Next]_vars
               PROVE  Ordered'
    OBVIOUS
  <1>0. TypeOK'
    BY NextType
  <1>1. ASSUME NEW k \in Contexts, NEW n \in Lengths, NEW p \in Places,
               NEW c \in Connections, Accept(p, c, k, n)
        PROVE  Ordered'
    <2> DEFINE up == link'[c] = "up"
    <2>1. /\ c # NULL /\ up \in BOOLEAN /\ CreateTicket(k, n, c) /\ WSASend(k, c, up)
          /\ UNCHANGED <<port, job, wire, cut>>
      BY <1>1, TransmissionAssumption DEF Accept, netVars
    <2>2. /\ \A d \in Connections \ {c} : link'[d] = link[d]
          /\ link[c] = "new" /\ link'[c] # "new"
          /\ \A q \in Places : mySocket'[q] \in {mySocket[q], c}
      BY <1>1 DEF Accept, TypeOK
    <2> HIDE DEF up
    <2>3. c # NULL => /\ link'[c] # "new"
                      /\ up <=> link'[c] = "up"
                      /\ link'[c] = link[c] \/ link[c] = "new"
      BY <2>2 DEF up
    <2> QED
      BY <1>0, <2>1, <2>2, <2>3, NewOrdered
  <1>2. ASSUME NEW k \in Contexts, NEW n \in Lengths, Answer(k, n)
        PROVE  Ordered'
    <2> DEFINE c == mySocket[Key]
    <2>1. c \in Connections \cup {NULL}
      BY KeyIsPlace DEF TypeOK
    <2>2. /\ CreateTicket(k, n, c) /\ WSASend(k, c, IsUp(c))
          /\ UNCHANGED <<mySocket, link, port, job, wire, cut>>
      BY <1>2 DEF Answer, netVars
    <2>3. c # NULL => link[c] # "new"
      BY <2>1, KeyIsPlace DEF Ordered, NewEmpty
    <2> HIDE DEF c
    <2>4. IsUp(c) \in BOOLEAN /\ (IsUp(c) => c # NULL)
      BY DEF IsUp
    <2>5. c # NULL => /\ link'[c] # "new"
                      /\ IsUp(c) <=> link'[c] = "up"
                      /\ link'[c] = link[c] \/ link[c] = "new"
      BY <2>2, <2>3 DEF IsUp
    <2>6. /\ \A d \in Connections \ {c} : link'[d] = link[d]
          /\ \A q \in Places : mySocket'[q] \in {mySocket[q], c}
      BY <2>2
    <2> QED
      BY <1>0, <2>1, <2>2, <2>4, <2>5, <2>6, NewOrdered
  <1>3. ASSUME NEW w \in Workers, Dequeue(w)
        PROVE  Ordered'
    <2>1. /\ port # <<>> /\ port' = Tail(port)
          /\ job' = [job EXCEPT ![w] = Head(port)]
          /\ UNCHANGED <<mySocket, link, heap, buf, len, sends, wire, target, cut>>
      BY <1>3 DEF Dequeue, contextVars, netVars, historyVars
    <2>2. /\ Len(port) \in Nat \ {0} /\ Head(port) = port[1]
          /\ \A i \in 1..Len(port') : i + 1 \in 1..Len(port) /\ port'[i] = port[i + 1]
      BY <2>1 DEF TypeOK
    <2>3. \A i \in 1..Len(port') : CutRight(port'[i], len, cut)
      BY <2>2 DEF Ordered, CutKnown
    <2>4. \A v \in Busy' : job'[v] = port[1] \/ (v \in Busy /\ job'[v] = job[v])
      BY <2>1, <2>2 DEF TypeOK, Busy
    <2>5. \A v \in Busy' : CutRight(job'[v], len, cut)
      BY <2>2, <2>4 DEF Ordered, CutKnown
    <2> QED
      BY <2>1, <2>3, <2>5, QuietOrdered
  <1>4. ASSUME NEW w \in Workers, Sent(w) \/ SendFailed(w)
        PROVE  Ordered'
    <2>1. /\ job' = [job EXCEPT ![w] = NULL] /\ job[w] # NULL
          /\ UNCHANGED <<mySocket, link, buf, len, sends, port, wire, target, cut>>
          /\ heap' = heap \/ heap' = [heap EXCEPT ![job[w].context] = "freed"]
      BY <1>4 DEF Sent, SendFailed, Handling, contextVars, netVars, historyVars
    <2>2. job[w].context \in Contexts /\ heap[job[w].context] = "live"
      BY <2>1, HandledContext
    <2>3. \A k \in Contexts : (heap[k] = "none") <=> (heap'[k] = "none")
      BY <2>1, <2>2 DEF TypeOK
    <2>4. \A v \in Busy' : CutRight(job'[v], len, cut)
      BY <2>1 DEF Ordered, CutKnown, Busy, TypeOK
    <2>5. \A i \in 1..Len(port') : CutRight(port'[i], len, cut)
      BY <2>1 DEF Ordered, CutKnown
    <2> QED
      BY <2>1, <2>3, <2>4, <2>5, QuietOrdered
  <1>5. CASE Cleanup \/ (\E c \in Connections : HangUp(c)) \/ UNCHANGED vars
    <2>1. UNCHANGED <<heap, buf, len, sends, port, job, wire, target, cut>>
      BY <1>5 DEF Cleanup, HangUp, vars, contextVars, netVars, historyVars
    <2>2. \A d \in Connections : link'[d] = link[d]
                                 \/ (link[d] # "new" /\ link'[d] = "down")
      BY <1>5 DEF Cleanup, HangUp, vars, TypeOK
    <2>3. \A p \in Places : mySocket'[p] \in {mySocket[p], NULL}
      BY <1>5 DEF Cleanup, HangUp, vars, TypeOK
    <2>4. /\ \A i \in 1..Len(port') : CutRight(port'[i], len, cut)
          /\ \A w \in Busy' : CutRight(job'[w], len, cut)
      BY <2>1 DEF Ordered, CutKnown, Busy
    <2> QED
      BY <2>1, <2>2, <2>3, <2>4, QuietOrdered
  <1> QED
    BY <1>1, <1>2, <1>3, <1>4, <1>5, RestOrdered, AbortOrdered, TransmitOrdered
    DEF Next, WorkerStep, KernelStep

(* A server status is sent on the connection it is for, and a context not  *)
(* taken is for none.                                                      *)
Greets ==
  \A k \in Contexts : greeted[k] # NULL =>
    heap[k] # "none" /\ target[k] = greeted[k]

LEMMA InitGreets == Init => Greets
  BY DEF Init, Greets

LEMMA NextGreets == TypeOK /\ Holding /\ Greets /\ [Next]_vars => Greets'
  <1> SUFFICES ASSUME TypeOK, Holding, Greets, [Next]_vars PROVE Greets'
    OBVIOUS
  <1>1. ASSUME NEW k \in Contexts, NEW n \in Lengths, NEW p \in Places,
               NEW c \in Connections, Accept(p, c, k, n)
        PROVE  Greets'
    BY <1>1 DEF Accept, CreateTicket, Greets, TypeOK
  <1>2. ASSUME NEW k \in Contexts, NEW n \in Lengths, Answer(k, n)
        PROVE  Greets'
    BY <1>2 DEF Answer, CreateTicket, Greets, TypeOK
  <1>3. ASSUME UNCHANGED <<heap, target, greeted>>
        PROVE  Greets'
    BY <1>3 DEF Greets
  <1>4. ASSUME NEW w \in Workers, Sent(w)
        PROVE  Greets'
    BY <1>4 DEF Sent, Greets, TypeOK, historyVars
  <1>5. ASSUME NEW w \in Workers, Dequeue(w) \/ SendRest(w) \/ SendFailed(w)
        PROVE  Greets'
    BY <1>3, <1>5 DEF Dequeue, SendRest, SendFailed, contextVars, historyVars
  <1>6. ASSUME NEW c \in Connections, HangUp(c) \/ Abort(c)
        PROVE  Greets'
    BY <1>3, <1>6 DEF HangUp, Abort, contextVars, historyVars
  <1>7. ASSUME NEW c \in Connections, NEW n \in Nat, Transmit(c, n)
        PROVE  Greets'
    BY <1>3, <1>7 DEF Transmit, contextVars
  <1>8. CASE Cleanup \/ UNCHANGED vars
    BY <1>3, <1>8 DEF Cleanup, vars, contextVars, historyVars
  <1>9. ASSUME NEW c \in Connections, sends[c] # <<>>,
               NEW n \in 1..len[Head(sends[c])], Transmit(c, n)
        PROVE  Greets'
    BY <1>7, <1>9 DEF TypeOK
  <1> QED
    BY <1>1, <1>2, <1>4, <1>5, <1>6, <1>8, <1>9 DEF Next, WorkerStep, KernelStep

(* A packet that is not cut goes out whole and in its turn, and a server   *)
(* status to the client that was accepted.                                 *)
THEOREM WholeAlways == Spec => []Whole
  <1>1. TypeOK /\ Ordered /\ Greets => Whole
    <2> SUFFICES ASSUME TypeOK, InOrder, Greets PROVE Whole
      BY DEF Ordered
    <2>1. ASSUME NEW c \in Connections, NEW i \in 1..Len(wire[c]),
                 wire[c][i] \notin cut, greeted[wire[c][i]] # NULL
          PROVE  greeted[wire[c][i]] = c
      <3>1. wire[c][i] \in Contexts
        BY DEF TypeOK
      <3>2. target[wire[c][i]] = c
        BY <2>1 DEF InOrder
      <3> QED
        BY <2>1, <3>1, <3>2 DEF Greets
    <2> QED
      BY <2>1 DEF Whole
  <1> QED
    BY <1>1, InitType, NextType, InitHolding, NextHolding, InitBytes, NextBytes,
       InitOrdered, NextOrdered, InitGreets, NextGreets, PTL DEF Spec
===============================================================================
