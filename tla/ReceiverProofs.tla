----------------------------- MODULE ReceiverProofs -----------------------------
(***************************************************************************)
(* What holds of Receiver for every size of the buffer, of the header and  *)
(* of the packets: its types, that no receive leaves the buffer, and that  *)
(* packets which come one by one are returned in their order.              *)
(***************************************************************************)
EXTENDS Receiver, SequenceTheorems, TLAPS

(* The inductive invariant.  Window alone is not inductive: the first      *)
(* receive of a connection uses the WSABUF as it was left, and has no room *)
(* behind the buffer because Cleanup left its length zero.                 *)
Inv ==
  /\ TypeOK
  /\ Window
  /\ myState = "NONE" => len = 0
  /\ Len(sizes) <= MaxPackets

(* What Assemble leaves for the steps that use it: the count never grows   *)
(* past what was received.                                                 *)
LEMMA AssembleBounds ==
  ASSUME Inv, recv = "done", NEW result \in BOOLEAN, Assemble(result)
  PROVE  /\ myRecvSize' \in 0..BufSize
         /\ myLastPacket' \in 0..Garbled
         /\ overrun' \in BOOLEAN
         /\ myData' = myData
<1> USE ReceiverAssumption DEF Inv, TypeOK, Window
<1> DEFINE count == myRecvSize + bytes
<1>1. count \in 0..BufSize
  OBVIOUS
<1>2. PICK size \in IF count >= HeaderSize THEN SizesAt(buf)
                                           ELSE {BufSize + 1} :
        /\ result = Enough(size, count)
        /\ myRecvSize' = IF result THEN count - size ELSE count
        /\ \E packet \in IF result THEN CopyFrom(buf, size)
                                   ELSE {myLastPacket} :
             myLastPacket' = packet
        /\ overrun' = (overrun \/ (result /\ size > LastSize))
        /\ UNCHANGED myData
  BY DEF Assemble
<1>3. size \in Nat
  <2>1. \A k \in 1..Len(sizes) : sizes[k] \in Sizes
    OBVIOUS
  <2>2. \A k \in 1..Len(sizes) : sizes[k] \in Nat
    BY <2>1
  <2> DEFINE own == {j \in 1..Len(sizes) : HeaderOf(j, buf)}
  <2>3. \A x \in {sizes[k] : k \in own} : x \in Nat
    BY <2>2
  <2>4. \/ SizesAt(buf) = {sizes[k] : k \in own}
        \/ SizesAt(buf) = {0}
        \/ SizesAt(buf) = 0..BufSize + 1
    BY DEF SizesAt
  <2>5. \A x \in SizesAt(buf) : x \in Nat
    <3> HIDE DEF own
    <3> QED
      BY <2>3, <2>4
  <2> QED
    BY <1>2, <2>5
<1>4. myRecvSize' \in 0..BufSize
  <2>1. CASE result
    <3>1. size <= count
      BY <1>2, <2>1 DEF Enough
    <3>2. myRecvSize' = count - size
      BY <1>2, <2>1
    <3> HIDE DEF count
    <3> QED
      BY <1>1, <1>3, <3>1, <3>2
  <2>2. CASE ~ result
    <3>1. myRecvSize' = count
      BY <1>2, <2>2
    <3> QED
      BY <1>1, <3>1
  <2> QED
    BY <2>1, <2>2
<1>5. \A packet \in CopyFrom(buf, size) : packet \in 0..Garbled
  BY DEF CopyFrom, Whole, Garbled
<1>6. myLastPacket' \in 0..Garbled
  BY <1>2, <1>5
<1>7. overrun' \in BOOLEAN
  BY <1>2
<1> QED
  BY <1>2, <1>4, <1>6, <1>7

(* What Cleanup leaves: an empty buffer of the right type.                 *)
LEMMA CleanupFacts ==
  ASSUME Cleanup
  PROVE  /\ myState' = "NONE" /\ myRecvSize' = 0 /\ len' = 0
         /\ myData' \in [Cells -> Bytes]
         /\ buf' = buf /\ myLastPacket' = myLastPacket
<1>1. Zero \in Bytes
  BY DEF Bytes
<1>2. myData' = [c \in Cells |-> Zero]
  BY DEF Cleanup
<1>3. myData' \in [Cells -> Bytes]
  BY <1>1, <1>2
<1>4. myState' = "NONE" /\ myRecvSize' = 0 /\ len' = 0
      /\ buf' = buf /\ myLastPacket' = myLastPacket
  BY DEF Cleanup
<1> QED
  BY <1>3, <1>4

LEMMA InvInit == Init => Inv
<1> SUFFICES ASSUME Init PROVE Inv
  OBVIOUS
<1> USE ReceiverAssumption DEF Init
<1>1. Zero \in Bytes
  BY DEF Bytes
<1>2. myData \in [Cells -> Bytes]
  BY <1>1
<1>3. overrun \in BOOLEAN /\ regular \in BOOLEAN
  BY Zenon
<1>4. TypeOK
  BY <1>2, <1>3 DEF TypeOK, Garbled
<1> QED
  BY <1>4 DEF Inv, Window

LEMMA InvNext == Inv /\ [Next]_vars => Inv'
<1> SUFFICES ASSUME Inv, [Next]_vars PROVE Inv'
  OBVIOUS
<1> USE ReceiverAssumption
<1>1. CASE Connect
  BY <1>1 DEF Connect, Inv, TypeOK, Window, bufferVars, Garbled
<1>2. CASE Reset
  BY <1>2 DEF Reset, Inv, TypeOK, Window, bufferVars
<1>3. CASE Dispose
  <2>1. overrun' \in BOOLEAN /\ regular' \in BOOLEAN
    BY <1>3, Zenon DEF Dispose
  <2> QED
    BY <1>3, <2>1, CleanupFacts
       DEF Dispose, Inv, TypeOK, Window, netVars, Garbled
<1>4. CASE DisposeNow
  <2>1. overrun' \in BOOLEAN
    BY <1>4, Zenon DEF DisposeNow
  <2> QED
    BY <1>4, <2>1, CleanupFacts
       DEF DisposeNow, Inv, TypeOK, Window, netVars, Garbled
<1>5. ASSUME NEW size \in Sizes, Send(size) PROVE Inv'
  <2>1. size \in Nat /\ size <= BufSize
    OBVIOUS
  <2>2. Len(sizes) + 1 \in Packets
    BY <1>5 DEF Send, Inv, TypeOK, Packets
  <2>3. [i \in 1..size |-> <<Len(sizes) + 1, i - 1>>] \in Seq(Bytes)
    <3>1. \A i \in 1..size : <<Len(sizes) + 1, i - 1>> \in Bytes
      BY <2>1, <2>2 DEF Bytes
    <3> QED
      BY <2>1, <3>1
  <2>4. stream' \in Seq(Bytes)
    BY <1>5, <2>3 DEF Send, Inv, TypeOK
  <2>5. sizes' \in Seq(Sizes) /\ Len(sizes') <= MaxPackets
    BY <1>5 DEF Send, Inv, TypeOK
  <2> QED
    BY <1>5, <2>4, <2>5 DEF Send, Inv, TypeOK, Window, bufferVars
<1>6. ASSUME NEW n \in 0..BufSize, Deliver(n) PROVE Inv'
  <2>1. stream \in Seq(Bytes) /\ n <= Len(stream)
    BY <1>6 DEF Deliver, Inv, TypeOK
  <2>2. stream' \in Seq(Bytes)
    BY <1>6, <2>1 DEF Deliver
  <2>3. \A c \in buf..buf + n - 1 : stream[c - buf + 1] \in Bytes
    <3> TAKE c \in buf..buf + n - 1
    <3>1. c - buf + 1 \in 1..Len(stream)
      BY <2>1 DEF Inv, TypeOK
    <3> QED
      BY <2>1, <3>1
  <2>4. myData' \in [Cells -> Bytes]
    BY <1>6, <2>3 DEF Deliver, Inv, TypeOK
  <2>5. regular' \in BOOLEAN
    BY <1>6 DEF Deliver
  <2> QED
    BY <1>6, <2>2, <2>4, <2>5 DEF Deliver, Inv, TypeOK, Window
<1>7. CASE SwallowGone
  <2>1. PICK result \in BOOLEAN :
          /\ recv = "done" /\ myState = "NONE"
          /\ Assemble(result)
          /\ Return(result)
          /\ recv' = "none"
          /\ UNCHANGED <<myState, buf, len, bytes, netVars, regular>>
    BY <1>7 DEF SwallowGone
  <2>2. returned' \in 0..Garbled
    BY <2>1 DEF Return, Inv, TypeOK, Garbled
  <2> QED
    BY <2>1, <2>2, AssembleBounds DEF Inv, TypeOK, Window, netVars
<1>8. CASE SwallowAndReceive
  <2>1. PICK result \in BOOLEAN :
          /\ recv = "done" /\ myState = "ACCEPTED"
          /\ Assemble(result)
          /\ Return(result)
          /\ Rearm
          /\ recv' = "armed"
          /\ UNCHANGED <<myState, bytes, netVars, regular>>
    BY <1>8 DEF SwallowAndReceive
  <2>2. returned' \in 0..Garbled
    BY <2>1 DEF Return, Inv, TypeOK, Garbled
  <2> QED
    BY <2>1, <2>2, AssembleBounds DEF Inv, TypeOK, Window, netVars, Rearm, Room
<1>9. CASE SwallowAndLose
  <2>1. PICK result \in BOOLEAN :
          /\ recv = "done"
          /\ Assemble(result)
          /\ Rearm
          /\ recv' = IF myState = "ACCEPTED" THEN "armed" ELSE "none"
          /\ myState' = "CLOSING"
          /\ UNCHANGED <<bytes, netVars, returned, regular>>
    BY <1>9 DEF SwallowAndLose
  <2> QED
    BY <2>1, AssembleBounds DEF Inv, TypeOK, Window, netVars, Rearm, Room
<1>10. CASE UNCHANGED vars
  BY <1>10 DEF Inv, TypeOK, Window, vars, bufferVars, netVars
<1> QED
  BY <1>1, <1>2, <1>3, <1>4, <1>5, <1>6, <1>7, <1>8, <1>9, <1>10 DEF Next

-------------------------------------------------------------------------------

(* The inductive invariant holds of every reachable state.                 *)
THEOREM ReceiverInvariant == Spec => []Inv
BY InvInit, InvNext, PTL DEF Spec

(* The variables of the receiver keep their types (Session, Asynchron).    *)
THEOREM ReceiverTyping == Spec => []TypeOK
<1>1. Inv => TypeOK
  BY DEF Inv
<1> QED
  BY <1>1, ReceiverInvariant, PTL

(* No receive is given room behind the buffer, and size -                  *)
(* additional_offsets never wraps, whatever sizes the headers read as      *)
(* (Swallow, Recv).                                                        *)
THEOREM ReceiverWindow == Spec => []Window
<1>1. Inv => Window
  BY DEF Inv
<1> QED
  BY <1>1, ReceiverInvariant, PTL

-------------------------------------------------------------------------------
(* Packets in their order.  While receives are regular, nothing is left in *)
(* the buffer between two of them, and what is on the way begins with the  *)
(* next packet, whole.                                                     *)

(* Of packets of sizes z, in the sequence s: byte i is at p of packet k,   *)
(* the rest of k follows, and then the next one.                           *)
Followed(s, z, i, k, p) ==
  /\ k \in 1..Len(z) /\ p \in 0..z[k] - 1
  /\ i + z[k] - p <= Len(s) + 1
  /\ \A q \in p..z[k] - 1 : s[i + q - p] = <<k, q>>
  /\ IF i + z[k] - p = Len(s) + 1
     THEN k = Len(z) ELSE s[i + z[k] - p] = <<k + 1, 0>>

Unbroken ==
  \A i \in 1..Len(stream) :
    Followed(stream, sizes, i, stream[i][1], stream[i][2])

(* What is on the way begins with the packet after r.                      *)
NextIs(r) == IF stream = <<>> THEN r = Len(sizes) ELSE stream[1] = <<r + 1, 0>>

(* The receive brought nothing, or packet r + 1 at the buffer's front.     *)
Brought(r) ==
  \/ bytes = 0 /\ NextIs(r)
  \/ /\ buf = 0 /\ r < Len(sizes)
     /\ bytes = sizes[r + 1] /\ Lies(r + 1, 0, bytes)
     /\ NextIs(r + 1)

(* The receive is to bring, or brought, the packet after r.                *)
PacketAt(r) ==
  /\ recv = "armed" => (len = 0 \/ buf = 0) /\ NextIs(r)
  /\ recv = "done"  => Brought(r)

(* A session that is closing loses what it assembles: only then r is not   *)
(* the number of packets returned.                                         *)
Receiving ==
  myState # "NONE" /\ recv # "none" =>
    /\ myRecvSize = 0
    /\ \E r \in 0..Len(sizes) :
         PacketAt(r) /\ (myState = "ACCEPTED" => r = returned)

InStep ==
  regular =>
    /\ myState = "NONE" => /\ recv = "none" /\ returned = 0 /\ myRecvSize = 0
                           /\ overrun = FALSE
    /\ Fits => /\ returned <= Len(sizes) /\ overrun = FALSE
               /\ myState = "ACCEPTED" => recv # "none"
               /\ Receiving

(* The bytes on the way are pairs, and packets have a size.                *)
LEMMA Pairs ==
  ASSUME TypeOK, NEW i \in 1..Len(stream)
  PROVE  stream[i] = <<stream[i][1], stream[i][2]>>
<1>1. stream[i] \in Bytes
  BY DEF TypeOK
<1> QED
  BY <1>1 DEF Bytes, Zero

LEMMA SizeOf ==
  ASSUME TypeOK, NEW k \in 1..Len(sizes)
  PROVE  /\ sizes[k] \in Nat /\ sizes[k] > 0
         /\ HeaderSize <= sizes[k] /\ sizes[k] <= BufSize
<1>1. sizes[k] \in Sizes
  BY DEF TypeOK
<1> QED
  BY <1>1, ReceiverAssumption

(* A receive takes bytes off the front: the rest is unbroken.              *)
LEMMA UnbrokenDeliver ==
  ASSUME Inv, Unbroken, NEW n \in 0..BufSize, Deliver(n)
  PROVE  Unbroken'
<1>1. /\ TypeOK /\ stream \in Seq(Bytes) /\ n \in Nat /\ n <= Len(stream)
      /\ sizes' = sizes /\ stream' = SubSeq(stream, n + 1, Len(stream))
  BY ReceiverAssumption DEF Deliver, Inv, TypeOK
<1> DEFINE old == Len(stream)
<1>2. /\ old \in Nat /\ Len(stream') = old - n
      /\ \A i \in 1..old - n : stream'[i] = stream[i + n]
  BY <1>1
<1> SUFFICES ASSUME NEW i \in 1..Len(stream')
             PROVE  Followed(stream', sizes', i, stream'[i][1], stream'[i][2])
  BY DEF Unbroken
<1> DEFINE k == stream'[i][1]
           p == stream'[i][2]
           s == sizes[k]
<1>3. i \in 1..old - n /\ i + n \in 1..old /\ stream'[i] = stream[i + n]
  BY <1>1, <1>2
<1>4. Followed(stream, sizes, i + n, k, p)
  BY <1>3 DEF Unbroken
<1> HIDE DEF k, p
<1>5. k \in 1..Len(sizes) /\ s \in Nat /\ p \in 0..s - 1
  BY <1>1, <1>4, SizeOf DEF Followed
<1>6. i + n + s - p <= old + 1
  BY <1>4 DEF Followed
<1>7. \A q \in p..s - 1 : stream[i + n + q - p] = <<k, q>>
  BY <1>4 DEF Followed
<1>8. IF i + n + s - p = old + 1 THEN k = Len(sizes)
      ELSE stream[i + n + s - p] = <<k + 1, 0>>
  BY <1>4 DEF Followed
<1> HIDE DEF s, old
<1>a. /\ i \in Nat /\ i > 0 /\ n \in Nat /\ old \in Nat /\ s \in Nat /\ p \in Nat
      /\ p < s /\ Len(stream') = old - n
  BY <1>1, <1>2, <1>3, <1>5
<1>9. \A q \in p..s - 1 : stream'[i + q - p] = <<k, q>>
  <2> TAKE q \in p..s - 1
  <2>1. i + q - p \in 1..old - n
    BY <1>a, <1>6
  <2>2. stream'[i + q - p] = stream[i + n + q - p]
    <3>1. (i + q - p) + n = i + n + q - p
      BY <1>1, <1>3, <1>5
    <3> QED
      BY <1>2, <2>1, <3>1
  <2> QED
    BY <1>7, <2>2
<1>10. i + s - p <= Len(stream') + 1
  BY <1>1, <1>2, <1>3, <1>5, <1>6
<1>11. IF i + s - p = Len(stream') + 1 THEN k = Len(sizes)
       ELSE stream'[i + s - p] = <<k + 1, 0>>
  <2>1. CASE i + s - p = Len(stream') + 1
    <3>1. i + n + s - p = old + 1
      BY <1>1, <1>2, <1>3, <1>5, <2>1
    <3> QED
      BY <1>8, <2>1, <3>1
  <2>2. CASE i + s - p # Len(stream') + 1
    <3>1. i + s - p \in 1..old - n /\ i + n + s - p # old + 1
      BY <1>a, <1>6, <2>2
    <3>2. (i + s - p) + n = i + n + s - p
      BY <1>1, <1>3, <1>5
    <3>3. stream'[i + s - p] = stream[i + n + s - p]
      BY <1>2, <3>1, <3>2
    <3> QED
      BY <1>8, <2>2, <3>1, <3>3
  <2> QED
    BY <2>1, <2>2
<1> QED
  BY <1>1, <1>5, <1>9, <1>10, <1>11 DEF Followed, k, p, s

(* A client's packet goes behind what is on the way.                       *)
LEMMA UnbrokenSend ==
  ASSUME Inv, Unbroken, NEW size \in Sizes, Send(size)
  PROVE  Unbroken'
<1> DEFINE m == Len(sizes) + 1
           packet == [i \in 1..size |-> <<m, i - 1>>]
           old == Len(stream)
<1>1. /\ TypeOK /\ stream \in Seq(Bytes) /\ sizes \in Seq(Sizes)
      /\ size \in Nat /\ size > 0
      /\ sizes' = Append(sizes, size) /\ stream' = stream \o packet
  BY ReceiverAssumption DEF Send, Inv, TypeOK
<1>2. packet \in Seq(Bytes) /\ Len(packet) = size
      /\ \A i \in 1..size : packet[i] = <<m, i - 1>>
  <2>1. m \in Packets /\ size <= BufSize
    BY ReceiverAssumption DEF Send, Inv, TypeOK, Packets
  <2>2. \A i \in 1..size : <<m, i - 1>> \in Bytes
    BY <1>1, <2>1, ReceiverAssumption DEF Bytes
  <2> QED
    BY <1>1, <2>2
<1>3. old \in Nat /\ m \in Nat /\ m > 0
  BY <1>1
<1>4. /\ Len(sizes') = m /\ sizes'[m] = size
      /\ \A k \in 1..Len(sizes) : sizes'[k] = sizes[k]
  BY <1>1
<1> HIDE DEF packet
<1>5. /\ Len(stream') = old + size
      /\ \A i \in 1..old : stream'[i] = stream[i]
      /\ \A i \in 1..size : stream'[old + i] = packet[i]
  <2>0. stream \in Seq(Bytes) /\ packet \in Seq(Bytes) /\ Len(packet) = size
        /\ stream' = stream \o packet
    BY <1>1, <1>2
  <2>1. Len(stream') = old + size
    BY <2>0, ConcatProperties
  <2>2. \A i \in 1..old : stream'[i] = stream[i]
    BY <2>0
  <2>3. ASSUME NEW i \in 1..size PROVE stream'[old + i] = packet[i]
    <3>1. old + i \in 1..old + size /\ old + i > old /\ (old + i) - old = i
      BY <1>1, <1>3
    <3> QED
      BY <1>1, <1>2, <1>3, <3>1
  <2> QED
    BY <2>1, <2>2, <2>3
<1> SUFFICES ASSUME NEW i \in 1..Len(stream')
             PROVE  Followed(stream', sizes', i, stream'[i][1], stream'[i][2])
  BY DEF Unbroken
<1>6. CASE i \in 1..old
  <2> DEFINE k == stream'[i][1]
             p == stream'[i][2]
             s == sizes[k]
  <2>1. Followed(stream, sizes, i, k, p)
    BY <1>5, <1>6 DEF Unbroken
  <2> HIDE DEF k, p
  <2>2. k \in 1..Len(sizes) /\ s \in Nat /\ p \in 0..s - 1
    BY <1>1, <2>1, SizeOf DEF Followed
  <2>3. i + s - p <= old + 1
    BY <2>1 DEF Followed
  <2>4. \A q \in p..s - 1 : stream[i + q - p] = <<k, q>>
    BY <2>1 DEF Followed
  <2>5. IF i + s - p = old + 1 THEN k = Len(sizes)
        ELSE stream[i + s - p] = <<k + 1, 0>>
    BY <2>1 DEF Followed
  <2>6. sizes'[k] = s /\ k \in 1..Len(sizes')
    BY <1>1, <1>4, <2>2
  <2> HIDE DEF s, old
  <2>7. \A q \in p..s - 1 : stream'[i + q - p] = <<k, q>>
    <3> TAKE q \in p..s - 1
    <3>1. i + q - p \in 1..old
      BY <1>3, <1>6, <2>2, <2>3
    <3> QED
      BY <1>5, <2>4, <3>1
  <2>8. i + s - p <= Len(stream') /\ i + s - p # Len(stream') + 1
    BY <1>1, <1>3, <1>5, <1>6, <2>2, <2>3
  <2>9. stream'[i + s - p] = <<k + 1, 0>>
    <3>1. CASE i + s - p = old + 1
      <4>1. 1 \in 1..size /\ 1 - 1 = 0
        BY <1>1
      <4>2. stream'[old + 1] = <<m, 0>>
        BY <1>2, <1>5, <4>1
      <4> QED
        BY <2>5, <3>1, <4>2
    <3>2. CASE i + s - p # old + 1
      <4>1. i + s - p \in 1..old
        BY <1>3, <1>6, <2>2, <2>3, <3>2
      <4> QED
        BY <1>5, <2>5, <3>2, <4>1
    <3> QED
      BY <3>1, <3>2
  <2>10. i + s - p <= Len(stream') + 1
    BY <1>1, <1>3, <1>5, <1>6, <2>2, <2>8
  <2> QED
    BY <2>2, <2>6, <2>7, <2>8, <2>9, <2>10 DEF Followed, k, p, s
<1>7. CASE i \notin 1..old
  <2> DEFINE p == i - old - 1
  <2> HIDE DEF old, m
  <2>1. p \in 0..size - 1 /\ p + 1 \in 1..size /\ i = old + (p + 1)
    BY <1>1, <1>3, <1>5, <1>7
  <2>2. stream'[i] = <<m, p>>
    <3>1. stream'[i] = packet[p + 1]
      BY <1>5, <2>1
    <3>2. (p + 1) - 1 = p
      BY <2>1
    <3> QED
      BY <1>2, <2>1, <3>1, <3>2
  <2>3. \A q \in p..size - 1 : stream'[i + q - p] = <<m, q>>
    <3> TAKE q \in p..size - 1
    <3>1. q + 1 \in 1..size /\ i + q - p = old + (q + 1) /\ (q + 1) - 1 = q
      BY <1>1, <1>3, <2>1
    <3>2. stream'[old + (q + 1)] = packet[q + 1]
      BY <1>5, <3>1
    <3> QED
      BY <1>2, <3>1, <3>2
  <2>4. i + size - p = Len(stream') + 1
    BY <1>1, <1>3, <1>5, <2>1
  <2>5. stream'[i][1] = m /\ stream'[i][2] = p
    BY <2>2
  <2>6. m \in 1..Len(sizes')
    BY <1>3, <1>4
  <2>7. i + size - p <= Len(stream') + 1
    BY <1>1, <1>3, <1>5, <2>1, <2>4
  <2> HIDE DEF p
  <2> QED
    BY <1>4, <2>1, <2>3, <2>4, <2>5, <2>6, <2>7 DEF Followed
<1> QED
  BY <1>6, <1>7

LEMMA UnbrokenNext == Inv /\ Unbroken /\ [Next]_vars => Unbroken'
<1> SUFFICES ASSUME Inv, Unbroken, [Next]_vars PROVE Unbroken'
  OBVIOUS
<1>1. ASSUME stream' = <<>> PROVE Unbroken'
  BY <1>1 DEF Unbroken, Followed
<1>2. ASSUME UNCHANGED <<sizes, stream>> PROVE Unbroken'
  BY <1>2 DEF Unbroken, Followed
<1>3. CASE Connect
  BY <1>1, <1>3 DEF Connect
<1>4. CASE Reset
  BY <1>1, <1>4 DEF Reset
<1>5. CASE Dispose \/ DisposeNow \/ SwallowGone \/ SwallowAndReceive
           \/ SwallowAndLose \/ UNCHANGED vars
  BY <1>2, <1>5 DEF Dispose, DisposeNow, SwallowGone, SwallowAndReceive,
                    SwallowAndLose, vars, netVars
<1> QED
  BY <1>3, <1>4, <1>5, UnbrokenDeliver, UnbrokenSend DEF Next

-------------------------------------------------------------------------------

(* What Swallow does with the next packet at the buffer's front.           *)
LEMMA AssembleNext ==
  ASSUME Inv, NEW k \in 1..Len(sizes), NEW result \in BOOLEAN,
         buf = 0, myRecvSize = 0, bytes = sizes[k], Lies(k, 0, bytes),
         sizes[k] <= LastSize, Assemble(result)
  PROVE  /\ result /\ myRecvSize' = 0 /\ myLastPacket' = k
         /\ (overrun = FALSE => overrun' = FALSE)
<1>1. TypeOK
  BY DEF Inv
<1>2. sizes[k] \in Nat /\ sizes[k] > 0 /\ HeaderSize <= sizes[k]
      /\ HeaderSize \in Nat /\ HeaderSize > 0
  BY <1>1, SizeOf, ReceiverAssumption
<1>3. HeaderOf(k, 0)
  <2>1. 0 + HeaderSize <= BufSize
    BY ReceiverAssumption
  <2>2. \A i \in 0..HeaderSize - 1 : i \in 0..bytes - 1
    BY <1>2
  <2> QED
    BY <2>1, <2>2 DEF HeaderOf, Lies
<1>4. ASSUME NEW j \in 1..Len(sizes), HeaderOf(j, 0) \/ Lies(j, 0, bytes)
      PROVE  j = k
  <2>1. myData[0 + 0] = <<j, 0>>
    <3>1. 0 \in 0..HeaderSize - 1 /\ 0 \in 0..bytes - 1
      BY <1>2
    <3> QED
      BY <1>4, <3>1 DEF HeaderOf, Lies
  <2>2. myData[0 + 0] = <<k, 0>>
    <3>1. 0 \in 0..bytes - 1
      BY <1>2
    <3> QED
      BY <3>1 DEF Lies
  <2> QED
    BY <2>1, <2>2
<1>5. SizesAt(buf) = {sizes[k]}
  <2>1. {j \in 1..Len(sizes) : HeaderOf(j, buf)} = {k}
    BY <1>3, <1>4
  <2> QED
    BY <1>3, <2>1 DEF SizesAt
<1>6. CopyFrom(buf, sizes[k]) = {k}
  <2>1. Whole(buf, sizes[k]) = {k}
    BY <1>3, <1>4 DEF Whole
  <2>2. ~ (sizes[k] > LastSize)
    BY <1>2, ReceiverAssumption
  <2> QED
    BY <1>2, <2>1, <2>2 DEF CopyFrom
<1>7. myRecvSize + bytes = sizes[k]
  BY <1>2
<1>8. PICK size \in SizesAt(buf) :
        /\ result = Enough(size, sizes[k])
        /\ myRecvSize' = IF result THEN sizes[k] - size ELSE sizes[k]
        /\ \E packet \in IF result THEN CopyFrom(buf, size)
                                   ELSE {myLastPacket} :
             myLastPacket' = packet
        /\ overrun' = (overrun \/ (result /\ size > LastSize))
  BY <1>2, <1>7 DEF Assemble
<1>9. size = sizes[k]
  BY <1>5, <1>8
<1>10. result
  <2>1. Enough(sizes[k], sizes[k])
    BY <1>2 DEF Enough
  <2> QED
    BY <1>8, <1>9, <2>1
<1>11. overrun = FALSE => overrun' = FALSE
  <2>1. ~ (size > LastSize)
    BY <1>2, <1>9, ReceiverAssumption
  <2> QED
    BY <1>8, <2>1, Zenon
<1>12. myRecvSize' = 0 /\ myLastPacket' = k
  BY <1>2, <1>6, <1>8, <1>9, <1>10
<1> QED
  BY <1>10, <1>11, <1>12

(* And when nothing came.                                                  *)
LEMMA AssembleNone ==
  ASSUME Inv, NEW result \in BOOLEAN, myRecvSize = 0, bytes = 0,
         Assemble(result)
  PROVE  ~ result /\ myRecvSize' = 0 /\ (overrun = FALSE => overrun' = FALSE)
<1>1. ~ (myRecvSize + bytes >= HeaderSize) /\ myRecvSize + bytes = 0
  BY ReceiverAssumption
<1> QED
  BY <1>1 DEF Assemble, Enough

(* The receive brings the whole next packet, as long as it is regular.     *)
LEMMA DeliverNext ==
  ASSUME Inv, Unbroken, NEW n \in 0..BufSize, Deliver(n), OnePacket(n),
         NEW r \in Nat, NextIs(r), n # 0, buf = 0
  PROVE  /\ r < Len(sizes) /\ n = sizes[r + 1]
         /\ Lies(r + 1, 0, n)'
         /\ NextIs(r + 1)'
<1> DEFINE k == r + 1
           old == Len(stream)
<1>1. /\ TypeOK /\ stream \in Seq(Bytes) /\ stream # <<>> /\ n \in Nat
      /\ n <= old /\ old \in Nat /\ old > 0
      /\ sizes' = sizes
      /\ stream' = SubSeq(stream, n + 1, old)
      /\ myData' = [c \in Cells |-> IF c \in 0..n - 1 THEN stream[c + 1]
                                                      ELSE myData[c]]
  <2>1. /\ TypeOK /\ stream \in Seq(Bytes) /\ stream # <<>> /\ n \in Nat
        /\ n <= old /\ sizes' = sizes
        /\ stream' = SubSeq(stream, n + 1, old)
    BY ReceiverAssumption DEF Deliver, Inv, TypeOK
  <2>2. myData' = [c \in Cells |-> IF c \in 0..0 + n - 1 THEN stream[c - 0 + 1]
                                                         ELSE myData[c]]
    BY DEF Deliver
  <2>3. \A c \in Cells : c - 0 + 1 = c + 1
    BY ReceiverAssumption DEF Cells
  <2>4. 0..0 + n - 1 = 0..n - 1
    BY <2>1
  <2> QED
    BY <2>1, <2>2, <2>3, <2>4
<1>2. stream[1] = <<k, 0>>
  BY <1>1 DEF NextIs
<1>3. Followed(stream, sizes, 1, k, 0)
  BY <1>1, <1>2 DEF Unbroken
<1>4. n = sizes[k]
  BY <1>2 DEF OnePacket
<1>5. /\ k \in 1..Len(sizes) /\ 1 + n - 0 <= old + 1
      /\ \A q \in 0..n - 1 : stream[1 + q - 0] = <<k, q>>
      /\ IF 1 + n - 0 = old + 1 THEN k = Len(sizes)
         ELSE stream[1 + n - 0] = <<k + 1, 0>>
  BY <1>3, <1>4 DEF Followed
<1>6. n <= BufSize /\ BufSize \in Nat
  BY ReceiverAssumption
<1>7. ASSUME NEW q \in 0..n - 1 PROVE myData'[0 + q] = <<k, q>>
  <2>1. q \in Cells /\ 0 + q = q /\ 1 + q - 0 = q + 1
    BY <1>1, <1>6 DEF Cells
  <2> QED
    BY <1>1, <1>5, <2>1
<1>8. Lies(k, 0, n)'
  <2>1. 0 + n <= BufSize
    BY <1>1, <1>6
  <2>2. \A q \in 0..n - 1 : myData'[0 + q] = <<r + 1, q>>
    BY <1>1, <1>7
  <2> QED
    BY <2>1, <2>2 DEF Lies
<1>9. NextIs(k)'
  <2>1. Len(stream') = old - n /\ \A i \in 1..old - n : stream'[i] = stream[i + n]
    BY <1>1
  <2>2. CASE n = old
    <3>1. stream' = <<>>
      BY <1>1, <2>1, <2>2
    <3>2. k = Len(sizes)
      BY <1>1, <1>5, <2>2
    <3> QED
      BY <1>1, <3>1, <3>2 DEF NextIs
  <2>3. CASE n # old
    <3>1. stream' # <<>> /\ stream'[1] = stream[n + 1]
      <4>1. 1 \in 1..old - n /\ 1 + n = n + 1
        BY <1>1, <2>3
      <4>2. Len(stream') # 0
        BY <1>1, <2>1, <2>3
      <4> QED
        BY <2>1, <4>1, <4>2
    <3>2. 1 + n - 0 = n + 1 /\ 1 + n - 0 # old + 1
      BY <1>1, <2>3
    <3>3. stream'[1] = <<k + 1, 0>>
      BY <1>5, <3>1, <3>2
    <3> QED
      BY <1>1, <3>1, <3>3 DEF NextIs
  <2> QED
    BY <2>2, <2>3
<1>10. r < Len(sizes)
  BY <1>1, <1>5 DEF TypeOK
<1> QED
  BY <1>1, <1>4, <1>8, <1>9, <1>10

LEMMA InStepInit == Init => Unbroken /\ InStep
BY DEF Init, Unbroken, InStep, Receiving

LEMMA InStepSend ==
  ASSUME Inv, InStep, NEW size \in Sizes, Send(size), regular', Fits'
  PROVE  InStep'
<1>0. TypeOK /\ Len(sizes) \in Nat /\ returned \in Nat
  BY ReceiverAssumption DEF Inv, TypeOK, Garbled
<1>1. /\ regular /\ myState = "ACCEPTED" /\ myState' = "ACCEPTED"
      /\ UNCHANGED <<myRecvSize, myData, buf, len, recv, bytes, returned,
                     overrun>>
      /\ sizes' = Append(sizes, size) /\ Len(sizes') = Len(sizes) + 1
      /\ \A k \in 1..Len(sizes) : sizes'[k] = sizes[k]
  BY <1>0 DEF Send, bufferVars, TypeOK
<1>2. Fits
  BY <1>0, <1>1 DEF Fits
<1>3. /\ returned <= Len(sizes) /\ recv # "none" /\ myRecvSize = 0
      /\ PacketAt(returned) /\ overrun = FALSE
  BY <1>1, <1>2 DEF InStep, Receiving
<1>4. ASSUME NEW r \in Nat, NextIs(r) PROVE NextIs(r)'
  <2> DEFINE packet == [i \in 1..size |-> <<Len(sizes) + 1, i - 1>>]
  <2>1. size \in Nat /\ size > 0
    BY ReceiverAssumption
  <2>2. packet \in Seq(Bytes) /\ Len(packet) = size
        /\ packet[1] = <<Len(sizes) + 1, 0>>
    <3>1. Len(sizes) + 1 \in Packets /\ size <= BufSize
      BY ReceiverAssumption DEF Send, Inv, TypeOK, Packets
    <3>2. \A i \in 1..size : <<Len(sizes) + 1, i - 1>> \in Bytes
      BY <2>1, <3>1, ReceiverAssumption DEF Bytes
    <3>3. 1 \in 1..size /\ 1 - 1 = 0
      BY <2>1
    <3> QED
      BY <2>1, <3>2, <3>3
  <2>3. stream' = stream \o packet /\ stream \in Seq(Bytes)
    BY <1>0 DEF Send, TypeOK
  <2> HIDE DEF packet
  <2>4. CASE stream = <<>>
    <3>1. stream' = packet /\ stream' # <<>>
      BY <2>1, <2>2, <2>3, <2>4
    <3> QED
      BY <1>4, <2>2, <2>4, <3>1 DEF NextIs
  <2>5. CASE stream # <<>>
    <3>1. stream' # <<>> /\ stream'[1] = stream[1]
      BY <2>1, <2>2, <2>3, <2>5
    <3> QED
      BY <1>4, <2>5, <3>1 DEF NextIs
  <2> QED
    BY <2>4, <2>5
<1>5. PICK r \in Nat : r = returned
  BY <1>0
<1>6. PacketAt(r)
  BY <1>3, <1>5
<1>7. PacketAt(r)'
  <2>1. CASE recv = "armed"
    BY <1>1, <1>4, <1>6, <2>1 DEF PacketAt
  <2>2. CASE recv = "done" /\ bytes = 0 /\ NextIs(r)
    BY <1>1, <1>4, <2>2 DEF PacketAt, Brought
  <2>3. CASE /\ recv = "done" /\ buf = 0 /\ r < Len(sizes)
             /\ bytes = sizes[r + 1] /\ Lies(r + 1, 0, bytes)
             /\ NextIs(r + 1)
    <3>1. NextIs(r + 1)'
      BY <1>4, <2>3
    <3>2. r < Len(sizes') /\ bytes' = sizes'[r + 1] /\ buf' = 0
      BY <1>0, <1>1, <1>5, <2>3
    <3>3. Lies(r + 1, 0, bytes)'
      BY <1>1, <2>3 DEF Lies
    <3> QED
      BY <1>1, <2>3, <3>1, <3>2, <3>3 DEF PacketAt, Brought
  <2> QED
    BY <1>1, <1>6, <2>1, <2>2, <2>3 DEF PacketAt, Brought
<1>8. Receiving'
  BY <1>0, <1>1, <1>3, <1>5, <1>7 DEF Receiving
<1> QED
  BY <1>0, <1>1, <1>3, <1>8 DEF InStep

LEMMA InStepDeliver ==
  ASSUME Inv, Unbroken, InStep, NEW n \in 0..BufSize, Deliver(n), regular',
         Fits'
  PROVE  InStep'
<1>0. TypeOK /\ Len(sizes) \in Nat
  BY DEF Inv, TypeOK
<1>1. /\ regular /\ (n = 0 \/ OnePacket(n)) /\ recv = "armed" /\ n \in Nat
      /\ recv' = "done" /\ bytes' = n /\ (n = 0 <=> len = 0)
      /\ UNCHANGED <<myState, myRecvSize, buf, len, sizes, returned, overrun>>
  <2>1. regular /\ (n = 0 \/ OnePacket(n))
    BY Zenon DEF Deliver
  <2> QED
    BY <2>1, ReceiverAssumption DEF Deliver
<1>2. Fits
  BY <1>1 DEF Fits
<1>3. myState # "NONE" /\ returned <= Len(sizes) /\ overrun = FALSE
  BY <1>1, <1>2 DEF InStep
<1>4. PICK r \in 0..Len(sizes) :
        PacketAt(r) /\ (myState = "ACCEPTED" => r = returned)
  BY <1>1, <1>2, <1>3 DEF InStep, Receiving
<1>5. r \in Nat /\ myRecvSize = 0 /\ (len = 0 \/ buf = 0) /\ NextIs(r)
  BY <1>0, <1>1, <1>2, <1>3, <1>4 DEF InStep, Receiving, PacketAt
<1>6. Brought(r)'
  <2>1. CASE n = 0
    <3>1. stream' = stream
      <4>1. stream' = SubSeq(stream, 0 + 1, Len(stream))
        BY <2>1 DEF Deliver
      <4> QED
        BY <1>0, <4>1 DEF TypeOK
    <3>2. NextIs(r)'
      BY <1>1, <1>5, <3>1 DEF NextIs
    <3> QED
      BY <1>1, <2>1, <3>2 DEF Brought
  <2>2. CASE n # 0
    <3>1. buf = 0 /\ OnePacket(n)
      BY <1>1, <1>5, <2>2
    <3>2. /\ r < Len(sizes) /\ n = sizes[r + 1]
          /\ Lies(r + 1, 0, n)'
          /\ NextIs(r + 1)'
      BY <1>5, <2>2, <3>1, DeliverNext
    <3>3. Lies(r + 1, 0, bytes)'
      BY <1>1, <3>2 DEF Lies
    <3> QED
      BY <1>1, <3>1, <3>2, <3>3 DEF Brought
  <2> QED
    BY <2>1, <2>2
<1>7. PacketAt(r)'
  BY <1>1, <1>6 DEF PacketAt
<1>8. Receiving'
  BY <1>1, <1>4, <1>5, <1>7 DEF Receiving
<1> QED
  BY <1>1, <1>3, <1>8 DEF InStep

(* What the two ways to renew the receive do with what it brought.         *)
LEMMA InStepAssemble ==
  ASSUME Inv, NEW r \in 0..Len(sizes), Brought(r), Fits, myRecvSize = 0,
         overrun = FALSE, NEW result \in BOOLEAN, Assemble(result),
         UNCHANGED netVars
  PROVE  /\ myRecvSize' = 0 /\ overrun' = FALSE
         /\ \/ ~ result /\ NextIs(r)'
            \/ result /\ r < Len(sizes) /\ myLastPacket' = r + 1 /\ NextIs(r + 1)'
<1>0. r \in Nat /\ Len(sizes) \in Nat /\ sizes' = sizes /\ stream' = stream
  BY DEF Inv, TypeOK, netVars
<1>1. CASE bytes = 0 /\ NextIs(r)
  BY <1>0, <1>1, AssembleNone DEF NextIs
<1>2. CASE /\ buf = 0 /\ r < Len(sizes)
           /\ bytes = sizes[r + 1] /\ Lies(r + 1, 0, bytes)
           /\ NextIs(r + 1)
  <2> DEFINE k == r + 1
  <2>1. /\ k \in 1..Len(sizes) /\ bytes = sizes[k] /\ Lies(k, 0, bytes)
        /\ buf = 0 /\ sizes[k] <= LastSize
    BY <1>0, <1>2 DEF Fits
  <2>2. NextIs(k)'
    BY <1>0, <1>2 DEF NextIs
  <2> HIDE DEF k
  <2>3. result /\ myRecvSize' = 0 /\ myLastPacket' = k /\ overrun' = FALSE
    BY <2>1, AssembleNext
  <2> QED
    BY <1>2, <2>2, <2>3 DEF k
<1> QED
  BY <1>1, <1>2 DEF Brought

LEMMA InStepNext == Inv /\ Unbroken /\ InStep /\ [Next]_vars => InStep'
<1> SUFFICES ASSUME Inv, Unbroken, InStep, [Next]_vars, regular' PROVE InStep'
  BY DEF InStep
<1>0. TypeOK /\ Garbled \in Nat /\ BufSize \in Nat
      /\ Len(sizes) \in Nat /\ returned \in Nat
  BY ReceiverAssumption DEF Inv, TypeOK, Garbled
<1>1. CASE Connect
  <2>1. /\ regular /\ returned' = 0 /\ myRecvSize' = 0 /\ len' = 0
        /\ overrun' = FALSE /\ myState' = "ACCEPTED" /\ recv' = "armed"
        /\ sizes' = <<>> /\ stream' = <<>>
    BY <1>1 DEF Connect, InStep, Inv, bufferVars
  <2>2. PacketAt(0)'
    BY <2>1 DEF PacketAt, NextIs
  <2>3. Receiving'
    BY <2>1, <2>2 DEF Receiving
  <2> QED
    BY <2>1, <2>3 DEF InStep
<1>2. CASE Reset
  BY <1>2 DEF Reset, InStep, Receiving, Fits, bufferVars
<1>3. CASE Dispose
  BY <1>0, <1>3, CleanupFacts DEF Dispose, InStep, Receiving, netVars
<1>4. CASE DisposeNow
  <2>1. recv # "done"
    BY <1>4 DEF DisposeNow
  <2> QED
    BY <1>0, <1>4, <2>1, CleanupFacts DEF DisposeNow, InStep, Receiving, netVars
<1>5. ASSUME NEW size \in Sizes, Send(size) PROVE InStep'
  <2>1. CASE Fits'
    BY <1>5, <2>1, InStepSend
  <2>2. CASE ~ Fits'
    BY <1>5, <2>2 DEF Send, InStep
  <2> QED
    BY <2>1, <2>2
<1>6. ASSUME NEW n \in 0..BufSize, Deliver(n) PROVE InStep'
  <2>1. CASE Fits'
    BY <1>6, <2>1, InStepDeliver
  <2>2. CASE ~ Fits'
    <3>1. regular /\ recv = "armed" /\ myState' = myState
      BY <1>6 DEF Deliver
    <3> QED
      BY <2>2, <3>1 DEF InStep
  <2> QED
    BY <2>1, <2>2
<1>7. CASE SwallowGone
  BY <1>7 DEF SwallowGone, InStep
<1>8. CASE SwallowAndReceive
  <2>1. PICK result \in BOOLEAN :
          /\ recv = "done" /\ myState = "ACCEPTED"
          /\ Assemble(result)
          /\ Return(result)
          /\ Rearm
          /\ recv' = "armed"
          /\ UNCHANGED <<myState, bytes, netVars, regular>>
    BY <1>8 DEF SwallowAndReceive
  <2>2. sizes' = sizes /\ regular
    BY <2>1 DEF netVars
  <2>3. CASE Fits
    <3>1. PICK r \in 0..Len(sizes) : PacketAt(r) /\ r = returned
      BY <2>1, <2>2, <2>3 DEF InStep, Receiving
    <3>2. /\ Brought(r) /\ myRecvSize = 0 /\ overrun = FALSE
          /\ returned <= Len(sizes)
      BY <2>1, <2>2, <2>3, <3>1 DEF InStep, Receiving, PacketAt
    <3>3. /\ myRecvSize' = 0 /\ overrun' = FALSE
          /\ \/ ~ result /\ NextIs(r)'
             \/ /\ result /\ r < Len(sizes) /\ myLastPacket' = r + 1
                /\ NextIs(r + 1)'
      BY <2>1, <2>3, <3>2, InStepAssemble
    <3>4. buf' = 0
      BY <2>1, <3>3 DEF Rearm
    <3>5. r \in Nat /\ returned # Garbled
      BY <1>0, <3>1, ReceiverAssumption DEF Inv, Garbled
    <3>6. CASE ~ result /\ NextIs(r)'
      <4>1. returned' = r
        BY <2>1, <3>1, <3>6 DEF Return
      <4>2. PacketAt(r)'
        BY <2>1, <3>4, <3>6 DEF PacketAt
      <4>3. Receiving'
        BY <2>2, <3>3, <4>1, <4>2 DEF Receiving
      <4> QED
        BY <2>1, <2>2, <3>1, <3>2, <3>3, <4>1, <4>3 DEF InStep
    <3>7. CASE result /\ r < Len(sizes) /\ myLastPacket' = r + 1 /\ NextIs(r + 1)'
      <4>1. returned' = r + 1
        BY <2>1, <3>1, <3>5, <3>7 DEF Return
      <4>2. PacketAt(r + 1)'
        BY <2>1, <3>4, <3>7 DEF PacketAt
      <4>3. r + 1 \in 0..Len(sizes)
        BY <1>0, <3>5, <3>7
      <4>4. Receiving'
        BY <2>2, <3>3, <4>1, <4>2, <4>3 DEF Receiving
      <4> QED
        BY <2>1, <2>2, <3>3, <4>1, <4>3, <4>4 DEF InStep
    <3> QED
      BY <3>3, <3>6, <3>7
  <2>4. CASE ~ Fits
    BY <2>1, <2>2, <2>4 DEF InStep, Fits
  <2> QED
    BY <2>3, <2>4
<1>9. CASE SwallowAndLose
  <2>1. PICK result \in BOOLEAN :
          /\ recv = "done" /\ myState # "NONE"
          /\ Assemble(result)
          /\ Rearm
          /\ recv' = IF myState = "ACCEPTED" THEN "armed" ELSE "none"
          /\ myState' = "CLOSING"
          /\ UNCHANGED <<bytes, netVars, returned, regular>>
    BY <1>9 DEF SwallowAndLose
  <2>2. sizes' = sizes /\ regular
    BY <2>1 DEF netVars
  <2>3. CASE Fits
    <3>1. PICK r \in 0..Len(sizes) :
            PacketAt(r) /\ (myState = "ACCEPTED" => r = returned)
      BY <2>1, <2>2, <2>3 DEF InStep, Receiving
    <3>2. /\ Brought(r) /\ myRecvSize = 0 /\ overrun = FALSE
          /\ returned <= Len(sizes)
      BY <2>1, <2>2, <2>3, <3>1 DEF InStep, Receiving, PacketAt
    <3>3. /\ myRecvSize' = 0 /\ overrun' = FALSE
          /\ \/ ~ result /\ NextIs(r)'
             \/ /\ result /\ r < Len(sizes) /\ myLastPacket' = r + 1
                /\ NextIs(r + 1)'
      BY <2>1, <2>3, <3>2, InStepAssemble
    <3>4. buf' = 0
      BY <2>1, <3>3 DEF Rearm
    <3>5. PICK q \in 0..Len(sizes) : NextIs(q)'
      BY <1>0, <3>3
    <3>6. PacketAt(q)'
      BY <2>1, <3>4, <3>5 DEF PacketAt
    <3>7. Receiving'
      BY <2>1, <2>2, <3>3, <3>6 DEF Receiving
    <3> QED
      BY <2>1, <2>2, <3>2, <3>3, <3>7 DEF InStep
  <2>4. CASE ~ Fits
    BY <2>1, <2>2, <2>4 DEF InStep, Fits
  <2> QED
    BY <2>3, <2>4
<1>10. CASE UNCHANGED vars
  BY <1>10 DEF InStep, Receiving, PacketAt, Brought, NextIs, Lies, Fits, vars,
               bufferVars, netVars
<1> QED
  BY <1>1, <1>2, <1>3, <1>4, <1>5, <1>6, <1>7, <1>8, <1>9, <1>10 DEF Next

(* As long as each receive brings exactly one packet, and none is larger   *)
(* than myLastPacket, Swallow returns the packets of a connection each     *)
(* once and in their order, and nothing of the connection before, and      *)
(* copies nothing into the disconnector (Swallow, Cleanup).                *)
THEOREM ReceiverReassembles == Spec => []Reassembles
<1>1. Init => Inv /\ Unbroken /\ InStep
  BY InvInit, InStepInit
<1>2. Inv /\ Unbroken /\ InStep /\ [Next]_vars => (Inv /\ Unbroken /\ InStep)'
  BY InvNext, UnbrokenNext, InStepNext
<1>3. Inv /\ Unbroken /\ InStep => Reassembles
  <2> SUFFICES ASSUME Inv, InStep, regular, Fits
               PROVE  returned # Garbled /\ returned <= Len(sizes) /\ ~ overrun
    BY DEF Reassembles
  <2>1. /\ returned <= Len(sizes) /\ Len(sizes) <= MaxPackets
        /\ overrun = FALSE
    BY DEF InStep, Inv
  <2>2. MaxPackets \in Nat /\ Len(sizes) \in Nat /\ returned \in Nat
    BY ReceiverAssumption DEF Inv, TypeOK, Garbled
  <2> QED
    BY <2>1, <2>2 DEF Garbled
<1> QED
  BY <1>1, <1>2, <1>3, PTL DEF Spec
===============================================================================
