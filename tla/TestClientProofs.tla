---------------------------- MODULE TestClientProofs ----------------------------
(***************************************************************************)
(* The console client: types, and that it takes the packets out of its     *)
(* buffer whole, once and in order, for any sizes of buffer and packets    *)
(* and however TCP cuts them.                                              *)
(*                                                                         *)
(* The inductive invariant says of every byte the server sent that its     *)
(* packet lies whole around it, in the order of the packets (Structure),   *)
(* that what is on the way is the end of it, and where the receive puts    *)
(* its data (Armed); NothingLost; and that between two receives no last    *)
(* byte of a packet waits in the buffer (Calm).                            *)
(***************************************************************************)
EXTENDS TestClient, SequenceTheorems, TLAPS

Whole(k) == HeaderSize + sizes[k]

Structure ==
  /\ Len(sizes) <= MaxPackets
  /\ sizes = <<>> => sent = <<>>
  /\ sizes # <<>> => Len(sent) > 0 /\ sent[1] = <<1, 0>>
  /\ \A j \in 1..Len(sent) : \E k \in 1..Len(sizes) : \E i \in 0..Whole(k) - 1 :
       sent[j] = <<k, i>>
  /\ \A j \in 1..Len(sent), k \in 1..Len(sizes) :
       sent[j] = <<k, 0>> =>
         /\ j + Whole(k) <= Len(sent) + 1
         /\ \A m \in 0..Whole(k) - 1 : sent[j + m] = <<k, m>>
         /\ IF j + Whole(k) = Len(sent) + 1
            THEN k = Len(sizes)
            ELSE sent[j + Whole(k)] = <<k + 1, 0>>

OnTheWay ==
  /\ Len(stream) <= Len(sent)
  /\ \A i \in 1..Len(stream) :
       stream[i] = sent[Len(sent) - Len(stream) + i]

Armed ==
  /\ recv \in {"armed", "done"} =>
       offset = tcpReceived /\ size = BufSize - tcpReceived /\ tcpReceived < BufSize
  /\ recv = "done" => bytes <= size
  /\ main = "connected" => recv = "none" /\ tcpReceived = 0

Calm ==
  calm =>
    /\ recv \in {"armed", "done"} =>
         \A i \in 0..tcpReceived - 1 : ~ IsLast(recvBuffer[i])
    /\ recv = "done" =>
         \A i, j \in tcpReceived..tcpReceived + bytes - 1 :
           IsLast(recvBuffer[i]) /\ IsLast(recvBuffer[j]) => i = j

IInv == TypeOK /\ Structure /\ OnTheWay /\ Armed /\ NothingLost /\ Calm

-------------------------------------------------------------------------------

LEMMA PayloadSizes ==
  ASSUME TypeOK, NEW k \in 1..Len(sizes)
  PROVE  /\ sizes[k] \in Payloads /\ sizes[k] \in Nat
         /\ Whole(k) \in Nat /\ HeaderSize <= Whole(k) /\ Whole(k) <= BufSize
  <1>1. sizes[k] \in Payloads
    BY DEF TypeOK
  <1> QED
    BY <1>1, ClientAssumption DEF Whole

LEMMA LastByte ==
  ASSUME TypeOK, NEW k \in 1..Len(sizes), NEW i \in Int
  PROVE  IsLast(<<k, i>>) <=> i = Whole(k) - 1
  <1>1. HeaderSize \in Nat /\ sizes[k] \in Nat /\ Whole(k) = HeaderSize + sizes[k]
    BY PayloadSizes, ClientAssumption DEF Whole
  <1> QED
    BY <1>1 DEF IsLast

LEMMA InitInv == Init => IInv
  <1> SUFFICES ASSUME Init PROVE IInv
    OBVIOUS
  <1> USE ClientAssumption DEF Init
  <1>1. TypeOK
    BY DEF TypeOK, Bytes, Zero, Cells, Garbled
  <1>2. Structure /\ OnTheWay
    BY DEF Structure, OnTheWay
  <1>3. Armed
    BY DEF Armed
  <1>4. NothingLost
    BY DEF NothingLost, Base, Count
  <1>5. Calm
    BY DEF Calm
  <1> QED
    BY <1>1, <1>2, <1>3, <1>4, <1>5 DEF IInv

(* What is in the buffer lies at Base in what was sent, and begins with    *)
(* the packet that is handled next.                                        *)
LEMMA InBuffer ==
  ASSUME IInv
  PROVE  /\ Count \in Nat /\ Count <= BufSize /\ Base \in Nat
         /\ Base + Count + Len(stream) = Len(sent)
         /\ Len(sent) \in Nat /\ Len(stream) \in Nat /\ Len(sizes) \in Nat
  <1>1. Len(sent) \in Nat /\ Len(stream) \in Nat /\ Len(sizes) \in Nat
    BY DEF IInv, TypeOK
  <1>2. Count \in Nat /\ Count <= BufSize
    BY ClientAssumption DEF IInv, TypeOK, Armed, Count
  <1> QED
    BY <1>1, <1>2 DEF Base, IInv, NothingLost

LEMMA NextPacket ==
  ASSUME IInv, Count > 0
  PROVE  LET K == handled + 1 IN
         /\ K \in 1..Len(sizes)
         /\ Base + Whole(K) <= Len(sent)
         /\ \A m \in 0..Whole(K) - 1 : sent[Base + 1 + m] = <<K, m>>
         /\ IF Base + Whole(K) = Len(sent)
            THEN K = Len(sizes)
            ELSE sent[Base + Whole(K) + 1] = <<K + 1, 0>>
         /\ \A m \in 0..Whole(K) - 1 : m < Count => recvBuffer[m] = <<K, m>>
  <1> DEFINE K == handled + 1
             j == Base + 1
  <1>0. handled \in Nat
    BY ClientAssumption DEF IInv, TypeOK, Garbled
  <1>1. j \in 1..Len(sent) /\ sent[j] = <<K, 0>>
    BY InBuffer DEF IInv, NothingLost
  <1>2. PICK k \in 1..Len(sizes) : \E i \in 0..Whole(k) - 1 : sent[j] = <<k, i>>
    BY <1>1 DEF IInv, Structure
  <1>3. K = k
    BY <1>1, <1>2
  <1>4. K \in 1..Len(sizes)
    BY <1>2, <1>3
  <1> HIDE DEF K
  <1>5. /\ j + Whole(K) <= Len(sent) + 1
        /\ \A m \in 0..Whole(K) - 1 : sent[j + m] = <<K, m>>
        /\ IF j + Whole(K) = Len(sent) + 1
           THEN K = Len(sizes)
           ELSE sent[j + Whole(K)] = <<K + 1, 0>>
    BY <1>1, <1>4 DEF IInv, Structure
  <1>6. Whole(K) \in Nat
    BY <1>4, PayloadSizes DEF IInv
  <1>7. /\ Base + Whole(K) <= Len(sent)
        /\ IF Base + Whole(K) = Len(sent)
           THEN K = Len(sizes)
           ELSE sent[Base + Whole(K) + 1] = <<K + 1, 0>>
    <2>1. j + Whole(K) = Base + Whole(K) + 1 /\ Base \in Int /\ Len(sent) \in Nat
      BY <1>6, InBuffer
    <2> HIDE DEF j
    <2> QED
      BY <1>5, <1>6, <2>1, SMTT(30)
  <1>8. ASSUME NEW m \in 0..Whole(K) - 1, m < Count
        PROVE  recvBuffer[m] = <<K, m>>
    <2>1. m \in 0..Count - 1
      BY <1>6, <1>8, InBuffer
    <2>2. recvBuffer[m] = sent[Base + 1 + m]
      BY <2>1 DEF IInv, NothingLost
    <2> QED
      BY <1>5, <2>2
  <1> QED
    BY <1>4, <1>5, <1>7, <1>8 DEF K

(* Only the packet handled next can lie at the front of the buffer.        *)
LEMMA FrontIsNext ==
  ASSUME IInv, NEW k \in 1..Len(sizes), NEW n \in 1..Count, Front(k, n)
  PROVE  k = handled + 1
  <1>1. Count > 0
    BY InBuffer
  <1>2. handled + 1 \in 1..Len(sizes)
    BY <1>1, NextPacket
  <1>3. Whole(handled + 1) \in Nat /\ HeaderSize <= Whole(handled + 1)
    BY <1>2, PayloadSizes DEF IInv
  <1>4. 0 \in 0..Whole(handled + 1) - 1
    BY <1>3, ClientAssumption
  <1>5. recvBuffer[0] = <<handled + 1, 0>>
    BY <1>1, <1>4, NextPacket
  <1>6. recvBuffer[0] = <<k, 0>>
    BY DEF Front
  <1> QED
    BY <1>5, <1>6

(* What the header says.                                                   *)
LEMMA HeaderRead ==
  ASSUME IInv, HeaderSize <= Count
  PROVE  SizesRead = {sizes[handled + 1]}
  <1> DEFINE K == handled + 1
  <1>1. Count > 0 /\ HeaderSize \in 1..Count
    BY InBuffer, ClientAssumption
  <1>2. K \in 1..Len(sizes)
    BY <1>1, NextPacket
  <1>3. Whole(K) \in Nat /\ HeaderSize <= Whole(K)
    BY <1>2, PayloadSizes DEF IInv
  <1>4. Front(K, HeaderSize)
    <2>1. \A m \in 0..HeaderSize - 1 : m \in 0..Whole(K) - 1 /\ m < Count
      <3>1. HeaderSize \in Nat /\ Count \in Nat
        BY InBuffer, ClientAssumption
      <3> HIDE DEF K
      <3> QED
        BY <1>1, <1>3, <3>1
    <2> QED
      BY <1>1, <2>1, NextPacket DEF Front
  <1>5. \A k \in 1..Len(sizes) : Front(k, HeaderSize) => k = K
    BY <1>1, FrontIsNext
  <1> HIDE DEF K
  <1>6. {j \in 1..Len(sizes) : Front(j, HeaderSize)} = {K}
    BY <1>2, <1>4, <1>5
  <1>7. SizesRead = {sizes[k] : k \in {K}}
    BY <1>2, <1>4, <1>6 DEF SizesRead
  <1> QED
    BY <1>7 DEF K

-------------------------------------------------------------------------------

(* A receive is begun behind count bytes.                                  *)
LEMMA ReceiveBegun ==
  ASSUME NEW count \in 0..BufSize, ReceiveForSelf(count)
  PROVE  /\ recv' = "armed" /\ offset' = count /\ size' = BufSize - count
         /\ offset' \in 0..BufSize /\ size' \in 0..BufSize - offset'
  BY ClientAssumption DEF ReceiveForSelf

LEMMA LoginInv == IInv /\ Login => IInv'
  <1> SUFFICES ASSUME IInv, Login PROVE IInv'
    OBVIOUS
  <1>1. /\ main = "connected" /\ recv = "none" /\ tcpReceived = 0
        /\ main' \in {"receiving", "ended"}
        /\ recv' = "none" => UNCHANGED <<recv, offset, size>>
        /\ recv' # "none" => ReceiveForSelf(0)
        /\ UNCHANGED <<recvBuffer, tcpReceived, bytes, netVars, handled, calm>>
    BY DEF Login, IInv, Armed, ReceiveForSelf
  <1>2. 0 \in 0..BufSize /\ 0 < BufSize
    BY ClientAssumption
  <1>3. recv' # "none" => /\ recv' = "armed" /\ offset' = 0 /\ size' = BufSize - 0
                          /\ offset' \in 0..BufSize /\ size' \in 0..BufSize - offset'
    BY <1>1, <1>2, ReceiveBegun
  <1>4. TypeOK'
    BY <1>1, <1>3 DEF IInv, TypeOK, netVars
  <1>5. Structure' /\ OnTheWay'
    BY <1>1 DEF IInv, Structure, OnTheWay, Whole, netVars
  <1>6. Armed'
    BY <1>1, <1>2, <1>3 DEF Armed
  <1>7. Count' = Count /\ Base' = Base
    BY <1>1, <1>3 DEF Count, Base, netVars
  <1>8. NothingLost'
    BY <1>1, <1>7 DEF IInv, NothingLost, netVars
  <1>9. Calm'
    BY <1>1, <1>3 DEF Calm
  <1> QED
    BY <1>4, <1>5, <1>6, <1>8, <1>9 DEF IInv

LEMMA HandleInv == IInv /\ HandlePacket => IInv'
  <1> SUFFICES ASSUME IInv, HandlePacket PROVE IInv'
    OBVIOUS
  <1> DEFINE K == handled + 1
             n == Whole(K)
             count == tcpReceived + bytes
  <1>1. /\ recv = "done" /\ bytes > 0 /\ count >= HeaderSize
        /\ UNCHANGED <<main, bytes, netVars, calm>>
    BY DEF HandlePacket
  <1>2. count = Count /\ Count > 0 /\ HeaderSize <= Count
    BY <1>1, ClientAssumption DEF Count, IInv, TypeOK
  <1>3. /\ SizesRead = {sizes[K]} /\ K \in 1..Len(sizes)
        /\ \A m \in 0..n - 1 : m < Count => recvBuffer[m] = <<K, m>>
    BY <1>2, HeaderRead, NextPacket
  <1>4. n \in Nat /\ HeaderSize <= n /\ n <= BufSize
    BY <1>3, PayloadSizes DEF IInv
  <1>5. /\ n <= count /\ tcpReceived' = count - n /\ ShiftLeft(n)
        /\ handled' = IF handled < Len(sizes) /\ Front(K, n) THEN K ELSE Garbled
        /\ ReceiveForSelf(tcpReceived')
    BY <1>3 DEF HandlePacket, WholePacket, Whole
  <1> HIDE DEF n, count
  <1>6. handled \in Nat /\ handled' = K
    <2>1. handled \in Nat
      BY ClientAssumption DEF IInv, TypeOK, Garbled
    <2>2. \A m \in 0..n - 1 : m < Count
      BY <1>2, <1>4, <1>5, InBuffer
    <2>3. Front(K, n)
      BY <1>3, <2>2 DEF Front
    <2>4. handled < Len(sizes)
      BY <1>3, <2>1
    <2> QED
      BY <1>5, <2>1, <2>3, <2>4
  <1> HIDE DEF K
  <1>7. /\ tcpReceived' \in 0..BufSize /\ tcpReceived' < BufSize
        /\ tcpReceived' = Count - n
    BY <1>2, <1>4, <1>5, InBuffer, ClientAssumption
  <1>8. /\ recv' = "armed" /\ offset' = tcpReceived' /\ size' = BufSize - tcpReceived'
        /\ offset' \in 0..BufSize /\ size' \in 0..BufSize - offset'
    BY <1>5, <1>7, ReceiveBegun
  <1>9. /\ recvBuffer' \in [Cells -> Bytes]
        /\ \A i \in 0..tcpReceived' - 1 :
             i + n \in 0..Count - 1 /\ recvBuffer'[i] = recvBuffer[i + n]
    <2>1. recvBuffer' = [c \in Cells |-> IF c + n < BufSize THEN recvBuffer[c + n]
                                                            ELSE Zero]
      BY <1>5 DEF ShiftLeft
    <2>2. \A c \in Cells : c + n < BufSize => c + n \in Cells
      BY <1>4, ClientAssumption DEF Cells
    <2>3. recvBuffer' \in [Cells -> Bytes]
      BY <2>1, <2>2 DEF IInv, TypeOK, Bytes
    <2>4. \A i \in 0..tcpReceived' - 1 :
            i \in Cells /\ i + n < BufSize /\ i + n \in 0..Count - 1
      BY SMTT(30), <1>4, <1>7, InBuffer, ClientAssumption DEF Cells
    <2> QED
      BY <2>1, <2>3, <2>4
  <1>10. TypeOK'
    <2>1. K \in 0..Garbled
      BY <1>3, ClientAssumption DEF Garbled, IInv, Structure, TypeOK
    <2> QED
      BY <1>1, <1>6, <1>7, <1>8, <1>9, <2>1 DEF IInv, TypeOK, netVars
  <1>11. Structure' /\ OnTheWay'
    BY <1>1 DEF IInv, Structure, OnTheWay, Whole, netVars
  <1>12. Armed'
    BY <1>1, <1>7, <1>8 DEF Armed, IInv
  <1>13. Count' = Count - n /\ Base' = Base + n
    <2>1. Count' = Count - n
      BY <1>7, <1>8 DEF Count
    <2>2. Base' = Len(sent) - Len(stream) - (Count - n)
      BY <1>1, <2>1 DEF Base, netVars
    <2> QED
      BY <1>4, <2>1, <2>2, InBuffer DEF Base
  <1>14. NothingLost'
    <2>1. IF Base + n = Len(sent) THEN K = Len(sizes)
                                  ELSE sent[Base + n + 1] = <<K + 1, 0>>
      BY <1>2, NextPacket DEF n, K
    <2>2. ASSUME NEW i \in 0..Count' - 1
          PROVE  recvBuffer'[i] = sent[Base' + 1 + i]
      <3>1. i \in 0..tcpReceived' - 1
        BY <1>7, <1>13
      <3>2. i + n \in 0..Count - 1 /\ recvBuffer'[i] = recvBuffer[i + n]
        BY <1>9, <3>1
      <3>3. recvBuffer[i + n] = sent[Base + 1 + (i + n)]
        BY <3>2 DEF IInv, NothingLost
      <3>4. Base + 1 + (i + n) = Base' + 1 + i
        BY <1>4, <1>13, InBuffer, SMTT(30)
      <3> QED
        BY <3>2, <3>3, <3>4
    <2>3. K <= Len(sizes) /\ Base + n >= 0
      BY <1>3, <1>4, InBuffer
    <2> QED
      BY <1>1, <1>6, <1>13, <2>1, <2>2, <2>3 DEF NothingLost, netVars
  <1>15. Calm'
    <2> SUFFICES ASSUME calm, NEW i \in 0..tcpReceived' - 1, IsLast(recvBuffer'[i])
                 PROVE  FALSE
      BY <1>1, <1>8 DEF Calm, IsLast, netVars
    <2>1. i + n \in 0..Count - 1 /\ IsLast(recvBuffer[i + n])
      BY <1>9
    <2>2. recvBuffer[n - 1] = <<K, n - 1>>
      BY <1>2, <1>3, <1>4, <1>5, InBuffer, ClientAssumption, SMTT(30)
    <2>3. IsLast(recvBuffer[n - 1])
      <3>1. IsLast(<<K, n - 1>>)
        BY <1>3, <1>4, LastByte DEF n, IInv
      <3> QED
        BY <2>2, <3>1
    <2>4. /\ \A j \in 0..tcpReceived - 1 : ~ IsLast(recvBuffer[j])
          /\ \A h, j \in tcpReceived..tcpReceived + bytes - 1 :
               IsLast(recvBuffer[h]) /\ IsLast(recvBuffer[j]) => h = j
      BY <1>1 DEF IInv, Calm
    <2>5. /\ n - 1 \in 0..tcpReceived + bytes - 1 /\ i + n \in 0..tcpReceived + bytes - 1
          /\ tcpReceived \in Nat /\ i \in Nat
      BY <1>2, <1>4, <1>5, <2>1, ClientAssumption DEF count, IInv, TypeOK
    <2>6. n - 1 >= tcpReceived /\ i + n >= tcpReceived
      BY <1>4, <2>1, <2>3, <2>4, <2>5
    <2>7. n - 1 = i + n
      BY <1>4, <2>1, <2>3, <2>4, <2>5, <2>6
    <2> QED
      BY <1>4, <2>5, <2>7
  <1> QED
    BY <1>10, <1>11, <1>12, <1>14, <1>15 DEF IInv

(* A callback that handles nothing receives again behind what is there.    *)
LEMMA AgainInv ==
  ASSUME IInv, recv = "done", NEW count, count = Count, count < BufSize,
         tcpReceived' = count, ReceiveForSelf(count),
         calm => \A i \in 0..count - 1 : ~ IsLast(recvBuffer[i]),
         UNCHANGED <<main, recvBuffer, bytes, netVars, handled, calm>>
  PROVE  IInv'
  <1>1. count \in 0..BufSize
    BY InBuffer
  <1>2. /\ recv' = "armed" /\ offset' = count /\ size' = BufSize - count
        /\ offset' \in 0..BufSize /\ size' \in 0..BufSize - offset'
    BY <1>1, ReceiveBegun
  <1>3. TypeOK'
    BY <1>1, <1>2 DEF IInv, TypeOK, netVars
  <1>4. Structure' /\ OnTheWay'
    BY DEF IInv, Structure, OnTheWay, Whole, netVars
  <1>5. Armed'
    BY <1>2 DEF IInv, Armed
  <1>6. Count' = Count /\ Base' = Base
    BY <1>1, <1>2 DEF Count, Base, netVars
  <1>7. NothingLost'
    BY <1>6 DEF IInv, NothingLost, netVars
  <1>8. Calm'
    BY <1>2 DEF Calm, IsLast, netVars
  <1> QED
    BY <1>3, <1>4, <1>5, <1>7, <1>8 DEF IInv

LEMMA WaitInv == IInv /\ WaitForMore => IInv'
  <1> SUFFICES ASSUME IInv, WaitForMore PROVE IInv'
    OBVIOUS
  <1> DEFINE K == handled + 1
             n == Whole(K)
             count == tcpReceived + bytes
  <1>1. /\ recv = "done" /\ bytes > 0
        /\ tcpReceived' = count /\ ReceiveForSelf(count)
        /\ \/ count < HeaderSize
           \/ \E payload \in SizesRead : ~ WholePacket(count, HeaderSize + payload)
        /\ UNCHANGED <<main, recvBuffer, bytes, netVars, handled, calm>>
    BY DEF WaitForMore
  <1>2. count = Count /\ Count > 0 /\ Count \in Nat
    BY <1>1, ClientAssumption DEF Count, IInv, TypeOK
  <1>3. /\ K \in 1..Len(sizes)
        /\ \A m \in 0..n - 1 : m < Count => recvBuffer[m] = <<K, m>>
    BY <1>2, NextPacket
  <1>4. n \in Nat /\ HeaderSize <= n /\ n <= BufSize
    BY <1>3, PayloadSizes DEF IInv
  <1>5. count < n
    <2>1. CASE count < HeaderSize
      BY <1>2, <1>4, <2>1, ClientAssumption
    <2>2. CASE count >= HeaderSize
      <3>1. SizesRead = {sizes[K]}
        BY <1>2, <2>2, HeaderRead
      <3>2. ~ WholePacket(count, n)
        BY <1>1, <1>2, <2>2, <3>1, ClientAssumption DEF Whole
      <3> QED
        BY <1>2, <1>4, <2>2, <3>2 DEF WholePacket
    <2> QED
      BY <1>2, <2>1, <2>2, ClientAssumption
  <1> HIDE DEF n, count
  <1>6. ASSUME NEW i \in 0..count - 1 PROVE ~ IsLast(recvBuffer[i])
    <2>1. i \in 0..n - 1 /\ i < Count /\ i # n - 1 /\ i \in Int
      BY <1>2, <1>4, <1>5
    <2>2. recvBuffer[i] = <<K, i>>
      BY <1>3, <2>1
    <2>3. ~ IsLast(<<K, i>>)
      BY <1>3, <2>1, LastByte DEF n, IInv
    <2> QED
      BY <2>2, <2>3
  <1>7. count < BufSize
    BY <1>2, <1>4, <1>5, ClientAssumption
  <1> QED
    BY <1>1, <1>2, <1>6, <1>7, AgainInv

LEMMA NothingInv == IInv /\ ReceiveNothing => IInv'
  <1> SUFFICES ASSUME IInv, ReceiveNothing PROVE IInv'
    OBVIOUS
  <1>1. /\ recv = "done" /\ bytes = 0 /\ ReceiveForSelf(tcpReceived)
        /\ tcpReceived' = tcpReceived
        /\ UNCHANGED <<main, recvBuffer, bytes, netVars, handled, calm>>
    BY DEF ReceiveNothing
  <1>2. tcpReceived = Count /\ tcpReceived < BufSize
    BY <1>1 DEF Count, IInv, TypeOK, Armed
  <1>3. calm => \A i \in 0..tcpReceived - 1 : ~ IsLast(recvBuffer[i])
    BY <1>1 DEF IInv, Calm
  <1> QED
    BY <1>1, <1>2, <1>3, AgainInv

(* Nothing but the state of the receive or of the connection changes, and  *)
(* no receive is begun.                                                    *)
LEMMA QuietInv ==
  ASSUME IInv, UNCHANGED <<main, bufferVars, bytes, sizes, sent, stream, handled,
                           calm>>,
         link' \in {"up", "fin", "rst"},
         recv' = recv \/ (recv \in {"armed", "failed"} /\ recv' \in {"failed", "none"})
  PROVE  IInv'
  <1>1. TypeOK'
    BY DEF IInv, TypeOK, bufferVars
  <1>2. Structure' /\ OnTheWay'
    BY SMTT(90) DEF IInv, Structure, OnTheWay, Whole
  <1>3. Armed'
    BY DEF IInv, Armed, bufferVars
  <1>4. Count' = Count /\ Base' = Base
    BY DEF Count, Base, bufferVars
  <1>5. NothingLost'
    BY <1>4 DEF IInv, NothingLost, bufferVars
  <1>6. Calm'
    BY DEF IInv, Calm, IsLast, bufferVars
  <1> QED
    BY <1>1, <1>2, <1>3, <1>5, <1>6 DEF IInv

LEMMA DeliverInv == ASSUME IInv, NEW n \in 0..BufSize, Deliver(n) PROVE IInv'
  <1>1. /\ recv = "armed" /\ n <= Len(stream) /\ n <= size
        /\ recv' = "done" /\ bytes' = n
        /\ recvBuffer' = [c \in Cells |-> IF c \in offset..offset + n - 1
                                          THEN stream[c - offset + 1]
                                          ELSE recvBuffer[c]]
        /\ stream' = SubSeq(stream, n + 1, Len(stream))
        /\ calm' = (calm /\ \A i, j \in 1..n :
                      IsLast(stream[i]) /\ IsLast(stream[j]) => i = j)
        /\ UNCHANGED <<main, tcpReceived, offset, size, link, sizes, sent, handled>>
    BY DEF Deliver
  <1>0. /\ recv = "armed" /\ n <= Len(stream) /\ recv' = "done" /\ bytes' = n
        /\ calm' => calm /\ \A i, j \in 1..n :
                      IsLast(stream[i]) /\ IsLast(stream[j]) => i = j
        /\ UNCHANGED <<main, tcpReceived, offset, size, link, sizes, sent, handled>>
    BY <1>1
  <1>2. /\ offset = tcpReceived /\ size = BufSize - tcpReceived
        /\ tcpReceived < BufSize /\ tcpReceived \in Nat /\ n \in Nat
        /\ tcpReceived + n <= BufSize
    BY <1>1, ClientAssumption DEF IInv, Armed, TypeOK
  <1>3. /\ stream' \in Seq(Bytes) /\ Len(stream') = Len(stream) - n
        /\ \A i \in 1..Len(stream) - n : stream'[i] = stream[n + i]
    <2>1. stream \in Seq(Bytes) /\ Len(stream) \in Nat
      BY DEF IInv, TypeOK
    <2>2. \A i \in n + 1..Len(stream) : stream[i] \in Bytes
      BY <1>2, <2>1
    <2>3. /\ stream' \in Seq(Bytes)
          /\ Len(stream') = IF n + 1 <= Len(stream) THEN Len(stream) - (n + 1) + 1 ELSE 0
          /\ \A i \in 1..Len(stream) - (n + 1) + 1 : stream'[i] = stream[n + 1 + i - 1]
      BY <1>1, <1>2, <2>1, <2>2, SubSeqProperties
    <2> QED
      BY <1>1, <1>2, <2>1, <2>3
  <1>4. /\ recvBuffer' \in [Cells -> Bytes]
        /\ \A c \in 0..tcpReceived - 1 : recvBuffer'[c] = recvBuffer[c]
        /\ \A c \in tcpReceived..tcpReceived + n - 1 :
             c - tcpReceived + 1 \in 1..n
             /\ recvBuffer'[c] = stream[c - tcpReceived + 1]
    <2>1. \A c \in tcpReceived..tcpReceived + n - 1 :
            c - tcpReceived + 1 \in 1..n /\ c \in Cells
      BY <1>2, ClientAssumption DEF Cells
    <2>2. \A c \in 0..tcpReceived - 1 :
            c \in Cells /\ c \notin tcpReceived..tcpReceived + n - 1
      BY <1>2, ClientAssumption DEF Cells
    <2>3. \A i \in 1..n : stream[i] \in Bytes
      BY <1>1, <1>2 DEF IInv, TypeOK
    <2>4. recvBuffer' = [c \in Cells |-> IF c \in tcpReceived..tcpReceived + n - 1
                                         THEN stream[c - tcpReceived + 1]
                                         ELSE recvBuffer[c]]
      BY <1>1, <1>2
    <2>5. recvBuffer \in [Cells -> Bytes]
      BY DEF IInv, TypeOK
    <2> QED
      BY <2>1, <2>2, <2>3, <2>4, <2>5
  <1>5. TypeOK'
    BY <1>1, <1>3, <1>4 DEF IInv, TypeOK
  <1>6. Structure'
    BY ZenonT(30), <1>1 DEF IInv, Structure, Whole
  <1>7. OnTheWay'
    <2>1. /\ Len(stream) \in Nat /\ Len(sent) \in Nat /\ Len(stream) <= Len(sent)
          /\ \A i \in 1..Len(stream) : stream[i] = sent[Len(sent) - Len(stream) + i]
      BY DEF IInv, OnTheWay, TypeOK
    <2>2. ASSUME NEW i \in 1..Len(stream')
          PROVE  stream'[i] = sent[Len(sent) - Len(stream') + i]
      <3>1. n + i \in 1..Len(stream) /\ i \in 1..Len(stream) - n /\ i \in Int
        BY SMTT(30), <1>1, <1>2, <1>3, <2>1
      <3>2. stream'[i] = sent[Len(sent) - Len(stream) + (n + i)]
        BY <1>3, <2>1, <3>1
      <3>3. Len(sent) - Len(stream) + (n + i) = Len(sent) - Len(stream') + i
        BY <1>2, <1>3, <2>1, <3>1
      <3> QED
        BY <3>2, <3>3
    <2>3. Len(stream') <= Len(sent)
      BY <1>2, <1>3, <2>1
    <2> QED
      BY <1>0, <2>2, <2>3 DEF OnTheWay
  <1>8. Armed'
    BY <1>1, <1>2 DEF IInv, Armed
  <1>9. /\ Count = tcpReceived /\ Count' = tcpReceived + n /\ Base' = Base
        /\ Base = Len(sent) - Len(stream) - tcpReceived
    <2>1. Count = tcpReceived /\ Count' = tcpReceived + n
      BY <1>1, <1>2 DEF Count
    <2> QED
      BY <1>0, <1>2, <1>3, <2>1, InBuffer DEF Base
  <1>10. NothingLost'
    <2>1. ASSUME NEW c \in 0..Count' - 1
          PROVE  recvBuffer'[c] = sent[Base + 1 + c]
      <3>1. CASE c \in 0..tcpReceived - 1
        BY <1>4, <1>9, <3>1 DEF IInv, NothingLost
      <3>2. CASE c \in tcpReceived..tcpReceived + n - 1
        <4>1. c - tcpReceived + 1 \in 1..Len(stream)
          <5>1. c - tcpReceived + 1 \in 1..n
            BY <1>4, <3>2
          <5> QED
            BY <1>0, <1>2, <5>1, InBuffer
        <4>2. recvBuffer'[c] = sent[Len(sent) - Len(stream) + (c - tcpReceived + 1)]
          BY <1>4, <3>2, <4>1 DEF IInv, OnTheWay
        <4>3. Len(sent) - Len(stream) + (c - tcpReceived + 1) = Base + 1 + c
          BY <1>2, <1>9, <3>2, InBuffer
        <4> QED
          BY <4>2, <4>3
      <3> QED
        BY <1>2, <1>9, <3>1, <3>2
    <2> QED
      BY <1>1, <1>9, <2>1 DEF IInv, NothingLost
  <1>11. Calm'
    <2> SUFFICES ASSUME calm'
                 PROVE  /\ \A i \in 0..tcpReceived - 1 : ~ IsLast(recvBuffer'[i])
                        /\ \A i, j \in tcpReceived..tcpReceived + n - 1 :
                             IsLast(recvBuffer'[i]) /\ IsLast(recvBuffer'[j]) => i = j
      BY <1>0 DEF Calm, IsLast
    <2>1. \A i \in 0..tcpReceived - 1 : ~ IsLast(recvBuffer'[i])
      BY <1>0, <1>4 DEF IInv, Calm
    <2>2. ASSUME NEW i \in tcpReceived..tcpReceived + n - 1,
                 NEW j \in tcpReceived..tcpReceived + n - 1,
                 IsLast(recvBuffer'[i]), IsLast(recvBuffer'[j])
          PROVE  i = j
      <3>1. i - tcpReceived + 1 = j - tcpReceived + 1
        BY <1>0, <1>4, <2>2
      <3> QED
        BY <1>2, <3>1
    <2> QED
      BY <2>1, <2>2
  <1> QED
    BY <1>5, <1>6, <1>7, <1>8, <1>10, <1>11 DEF IInv

LEMMA ConcatPlaces ==
  ASSUME NEW S, NEW s \in Seq(S), NEW t \in Seq(S)
  PROVE  /\ s \o t \in Seq(S) /\ Len(s \o t) = Len(s) + Len(t)
         /\ \A j \in 1..Len(s) : (s \o t)[j] = s[j]
         /\ \A i \in 1..Len(t) : (s \o t)[Len(s) + i] = t[i]
  <1>1. /\ s \o t \in Seq(S) /\ Len(s \o t) = Len(s) + Len(t)
        /\ \A j \in 1..Len(s) + Len(t) :
             (s \o t)[j] = IF j <= Len(s) THEN s[j] ELSE t[j - Len(s)]
    BY ConcatProperties
  <1>2. Len(s) \in Nat /\ Len(t) \in Nat
    OBVIOUS
  <1>3. \A j \in 1..Len(s) : (s \o t)[j] = s[j]
    BY <1>1, <1>2
  <1>4. ASSUME NEW i \in 1..Len(t) PROVE (s \o t)[Len(s) + i] = t[i]
    <2> DEFINE j == Len(s) + i
    <2>1. j \in 1..Len(s) + Len(t) /\ ~ (j <= Len(s)) /\ j - Len(s) = i
      BY <1>2
    <2> HIDE DEF j
    <2>2. (s \o t)[j] = t[i]
      BY <1>1, <2>1
    <2> QED
      BY <2>2 DEF j
  <1> QED
    BY <1>1, <1>3, <1>4

(* The server sends a packet.                                              *)
LEMMA SendsInv == ASSUME IInv, NEW payload \in Payloads, ServerSends(payload)
                  PROVE  IInv'
  <1>0. PICK K \in Nat : K = Len(sizes) + 1
    BY DEF IInv, TypeOK
  <1> DEFINE n == HeaderSize + payload
             L == Len(sent)
             R == Len(stream)
             packet == PacketBytes(K, n)
  <1>1. /\ Len(sizes) < MaxPackets /\ sizes' = Append(sizes, payload)
        /\ sent' = sent \o packet /\ stream' = stream \o packet
        /\ UNCHANGED <<main, recvBuffer, tcpReceived, offset, size, recv, bytes,
                       link, handled, calm>>
    BY <1>0 DEF ServerSends, bufferVars
  <1>2. /\ n \in Nat \ {0} /\ n <= BufSize /\ payload \in Nat /\ HeaderSize <= n
    BY ClientAssumption
  <1>3. /\ sizes \in Seq(Payloads) /\ sent \in Seq(Bytes) /\ stream \in Seq(Bytes)
        /\ L \in Nat /\ R \in Nat /\ Len(sizes) \in Nat /\ R <= L
    BY DEF IInv, TypeOK, OnTheWay
  <1>4. K \in Packets
    BY <1>0, <1>1, <1>3, ClientAssumption DEF Packets
  <1>5. packet \in Seq(Bytes) /\ Len(packet) = n /\ \A i \in 1..n : packet[i] = <<K, i - 1>>
    <2>1. \A i \in 1..n : <<K, i - 1>> \in Bytes
      BY <1>2, <1>4, ClientAssumption DEF Bytes
    <2> HIDE DEF n
    <2> QED
      BY <1>2, <2>1 DEF PacketBytes
  <1> HIDE DEF packet
  <1>6. /\ sent' \in Seq(Bytes) /\ Len(sent') = L + n
        /\ \A j \in 1..L : sent'[j] = sent[j]
        /\ \A i \in 1..n : sent'[L + i] = <<K, i - 1>>
    <2>1. sent' = sent \o packet
      BY <1>1
    <2> HIDE DEF n
    <2>2. /\ sent' \in Seq(Bytes) /\ Len(sent') = Len(sent) + Len(packet)
          /\ \A j \in 1..Len(sent) : sent'[j] = sent[j]
          /\ \A i \in 1..Len(packet) : sent'[Len(sent) + i] = packet[i]
      <3>1. sent \in Seq(Bytes) /\ packet \in Seq(Bytes)
        BY <1>3, <1>5
      <3>2. /\ sent \o packet \in Seq(Bytes)
            /\ Len(sent \o packet) = Len(sent) + Len(packet)
            /\ \A j \in 1..Len(sent) : (sent \o packet)[j] = sent[j]
            /\ \A i \in 1..Len(packet) : (sent \o packet)[Len(sent) + i] = packet[i]
        BY <3>1, ConcatPlaces
      <3> QED
        BY <2>1, <3>2, Zenon
    <2> QED
      BY <1>5, <2>2
  <1>7. /\ stream' \in Seq(Bytes) /\ Len(stream') = R + n
        /\ \A j \in 1..R : stream'[j] = stream[j]
        /\ \A i \in 1..n : stream'[R + i] = <<K, i - 1>>
    <2>1. stream' = stream \o packet
      BY <1>1
    <2> HIDE DEF n
    <2>2. /\ stream' \in Seq(Bytes) /\ Len(stream') = Len(stream) + Len(packet)
          /\ \A j \in 1..Len(stream) : stream'[j] = stream[j]
          /\ \A i \in 1..Len(packet) : stream'[Len(stream) + i] = packet[i]
      <3>1. stream \in Seq(Bytes) /\ packet \in Seq(Bytes)
        BY <1>3, <1>5
      <3>2. /\ stream \o packet \in Seq(Bytes)
            /\ Len(stream \o packet) = Len(stream) + Len(packet)
            /\ \A j \in 1..Len(stream) : (stream \o packet)[j] = stream[j]
            /\ \A i \in 1..Len(packet) : (stream \o packet)[Len(stream) + i] = packet[i]
        BY <3>1, ConcatPlaces
      <3> QED
        BY <2>1, <3>2, Zenon
    <2> QED
      BY <1>5, <2>2
  <1>8. /\ sizes' \in Seq(Payloads) /\ Len(sizes') = K
        /\ \A k \in 1..Len(sizes) : sizes'[k] = sizes[k]
        /\ sizes'[K] = payload
    BY <1>0, <1>1, <1>3
  <1>9. /\ \A k \in 1..Len(sizes) : Whole(k)' = Whole(k)
        /\ Whole(K)' = n
    <2>1. \A k \in 1..Len(sizes) : Whole(k)' = Whole(k)
      BY <1>8 DEF Whole
    <2>2. HeaderSize + sizes'[K] = n
      BY <1>8
    <2> QED
      BY <2>1, <2>2 DEF Whole
  <1>10. \A k \in 1..Len(sizes) : Whole(k) \in Nat \ {0} /\ HeaderSize <= Whole(k)
    BY PayloadSizes, ClientAssumption DEF IInv
  <1> HIDE DEF n
  <1>11. Structure'
    <2>1. Len(sizes') <= MaxPackets
      BY <1>0, <1>1, <1>3, <1>8, ClientAssumption
    <2>2. sizes' # <<>> /\ Len(sent') > 0 /\ sent'[1] = <<1, 0>>
      <3>1. Len(sent') > 0
        BY <1>2, <1>3, <1>6
      <3>2. CASE sizes = <<>>
        <4>1. L = 0 /\ K = 1 /\ 1 \in 1..n
          BY <1>0, <1>2, <3>2 DEF IInv, Structure
        <4>2. sent'[L + 1] = <<K, 1 - 1>>
          BY <1>6, <4>1
        <4> QED
          BY SMTT(30), <1>8, <3>1, <4>1, <4>2
      <3>3. CASE sizes # <<>>
        <4>1. L > 0 /\ sent[1] = <<1, 0>>
          BY <3>3 DEF IInv, Structure
        <4>2. 1 \in 1..L
          BY <1>3, <4>1
        <4> QED
          BY <1>0, <1>3, <1>6, <1>8, <3>1, <4>1, <4>2
      <3> QED
        BY <3>2, <3>3
    <2>3. ASSUME NEW j \in 1..L + n
          PROVE  \/ j \in 1..L
                 \/ \E i \in 1..n : j = L + i
      <3>1. CASE j > L
        <4>1. j - L \in 1..n /\ j = L + (j - L)
          BY <1>2, <1>3, <3>1
        <4> QED
          BY <4>1
      <3>2. CASE ~ (j > L)
        BY <1>2, <1>3, <3>2
      <3> QED
        BY <3>1, <3>2
    <2>4. ASSUME NEW j \in 1..L + n
          PROVE  \E k \in 1..K : \E i \in 0..Whole(k)' - 1 : sent'[j] = <<k, i>>
      <3>1. CASE j \in 1..L
        <4>1. PICK k \in 1..Len(sizes) : \E i \in 0..Whole(k) - 1 : sent[j] = <<k, i>>
          BY <3>1 DEF IInv, Structure
        <4>2. k \in 1..K /\ Whole(k)' = Whole(k)
          BY <1>0, <1>3, <1>9
        <4> QED
          BY <1>6, <3>1, <4>1, <4>2
      <3>2. CASE \E i \in 1..n : j = L + i
        <4>1. PICK i \in 1..n : j = L + i
          BY <3>2
        <4>2. i - 1 \in 0..n - 1 /\ sent'[j] = <<K, i - 1>> /\ K \in 1..K
          BY <1>0, <1>2, <1>3, <1>6, <4>1
        <4> QED
          BY <1>9, <4>2
      <3> QED
        BY <2>3, <3>1, <3>2
    <2>5. ASSUME NEW j \in 1..L + n, NEW k \in 1..K, sent'[j] = <<k, 0>>
          PROVE  /\ j + Whole(k)' <= L + n + 1
                 /\ \A m \in 0..Whole(k)' - 1 : sent'[j + m] = <<k, m>>
                 /\ IF j + Whole(k)' = L + n + 1
                    THEN k = K
                    ELSE sent'[j + Whole(k)'] = <<k + 1, 0>>
      <3>1. CASE j \in 1..L
        <4>1. sent[j] = <<k, 0>>
          BY <1>6, <2>5, <3>1
        <4>2. k \in 1..Len(sizes)
          BY <3>1, <4>1 DEF IInv, Structure
        <4>3. /\ j + Whole(k) <= L + 1
              /\ \A m \in 0..Whole(k) - 1 : sent[j + m] = <<k, m>>
              /\ IF j + Whole(k) = L + 1
                 THEN k = Len(sizes)
                 ELSE sent[j + Whole(k)] = <<k + 1, 0>>
          BY <3>1, <4>1, <4>2 DEF IInv, Structure
        <4>4. Whole(k)' = Whole(k) /\ Whole(k) \in Nat \ {0}
          BY <1>9, <1>10, <4>2
        <4>5. \A m \in 0..Whole(k) - 1 : j + m \in 1..L
          BY <1>3, <3>1, <4>3, <4>4
        <4>6. \A m \in 0..Whole(k) - 1 : sent'[j + m] = <<k, m>>
          BY <1>6, <4>3, <4>5
        <4>7. j + Whole(k) < L + n + 1
          BY <1>2, <1>3, <3>1, <4>3, <4>4
        <4>8. sent'[j + Whole(k)] = <<k + 1, 0>>
          <5>1. CASE j + Whole(k) = L + 1
            <6>1. 1 \in 1..n /\ k + 1 = K
              BY <1>0, <1>2, <4>3, <5>1
            <6>2. sent'[L + 1] = <<K, 1 - 1>>
              BY <1>6, <6>1
            <6>3. <<K, 1 - 1>> = <<k + 1, 0>>
              BY <6>1
            <6> HIDE DEF L
            <6> QED
              BY <5>1, <6>2, <6>3
          <5>2. CASE j + Whole(k) # L + 1
            <6>1. j + Whole(k) \in 1..L
              <7>1. j + Whole(k) <= L + 1
                BY <4>3
              <7>2. L \in Nat /\ j \in Nat /\ j > 0 /\ Whole(k) \in Nat
                BY <1>3, <3>1, <4>4
              <7> HIDE DEF L
              <7> QED
                BY <5>2, <7>1, <7>2
            <6> QED
              BY <1>6, <4>3, <5>2, <6>1
          <5> QED
            BY <5>1, <5>2
        <4>9. j + Whole(k) # L + n + 1 /\ j + Whole(k) <= L + n + 1
          BY <1>2, <1>3, <3>1, <4>4, <4>7
        <4> QED
          BY <4>4, <4>6, <4>8, <4>9
      <3>2. CASE \E i \in 1..n : j = L + i
        <4>1. PICK i \in 1..n : j = L + i
          BY <3>2
        <4>2. sent'[j] = <<K, i - 1>>
          BY <1>6, <4>1
        <4>3. k = K /\ i = 1 /\ j = L + 1
          BY <2>5, <4>1, <4>2, <1>2
        <4>4. ASSUME NEW m \in 0..n - 1 PROVE sent'[j + m] = <<K, m>>
          <5>1. m + 1 \in 1..n /\ L + (m + 1) = j + m /\ (m + 1) - 1 = m
            BY <1>2, <1>3, <4>3
          <5>2. sent'[L + (m + 1)] = <<K, (m + 1) - 1>>
            BY <1>6, <5>1
          <5> QED
            BY <5>1, <5>2
        <4>5. j + n = L + n + 1 /\ j + n <= L + n + 1
          BY <1>2, <1>3, <4>3
        <4>6. Whole(k)' = n
          BY <1>9, <4>3
        <4> QED
          BY <4>3, <4>4, <4>5, <4>6
      <3> QED
        BY <2>3, <3>1, <3>2
    <2> QED
      BY <1>6, <1>8, <2>1, <2>2, <2>4, <2>5 DEF Structure
  <1>12. OnTheWay'
    <2>1. Len(stream') <= Len(sent')
      BY <1>2, <1>3, <1>6, <1>7
    <2>2. ASSUME NEW i \in 1..R + n
          PROVE  stream'[i] = sent'[Len(sent') - Len(stream') + i]
      <3>1. Len(sent') - Len(stream') + i = L - R + i
        BY <1>2, <1>3, <1>6, <1>7
      <3>2. CASE i <= R
        <4>1. i \in 1..R /\ L - R + i \in 1..L
          BY <1>3, <3>2
        <4>2. stream[i] = sent[L - R + i]
          BY <4>1 DEF IInv, OnTheWay
        <4> QED
          BY <1>6, <1>7, <3>1, <4>1, <4>2
      <3>3. CASE i > R
        <4>1. i - R \in 1..n /\ i = R + (i - R) /\ L - R + i = L + (i - R)
          BY <1>2, <1>3, <3>3
        <4>2. stream'[R + (i - R)] = <<K, (i - R) - 1>>
          BY <1>7, <4>1
        <4>3. sent'[L + (i - R)] = <<K, (i - R) - 1>>
          BY <1>6, <4>1
        <4> QED
          BY <3>1, <4>1, <4>2, <4>3
      <3> QED
        BY <1>3, <3>2, <3>3
    <2> QED
      BY <1>7, <2>1, <2>2 DEF OnTheWay
  <1>13. Armed'
    BY <1>1 DEF IInv, Armed
  <1>14. Count' = Count /\ Base' = Base
    <2>1. Count' = Count
      BY <1>1 DEF Count
    <2>2. Len(sent') = L + n /\ Len(stream') = R + n
      BY <1>6, <1>7
    <2>3. L \in Nat /\ R \in Nat /\ n \in Nat /\ Count \in Nat
      BY <1>2, <1>3, InBuffer
    <2>4. Base' = Len(sent') - Len(stream') - Count'
      BY DEF Base
    <2>5. Base = L - R - Count
      BY DEF Base
    <2> HIDE DEF L, R
    <2>6. Base' = (L + n) - (R + n) - Count
      BY <2>1, <2>2, <2>4
    <2> QED
      BY <2>1, <2>3, <2>5, <2>6
  <1>15. NothingLost'
    <2>1. \A i \in 0..Count - 1 : recvBuffer[i] = sent'[Base + 1 + i]
      <3>1. \A i \in 0..Count - 1 : Base + 1 + i \in 1..L
        BY InBuffer
      <3> QED
        BY <1>6, <3>1 DEF IInv, NothingLost
    <2>2. Base # L + n /\ Base >= 0 /\ handled <= K
      <3>1. Base + Count + R = L /\ Base \in Nat /\ Count \in Nat
        BY InBuffer
      <3>2. handled <= Len(sizes) /\ handled \in Nat
        BY ClientAssumption DEF IInv, NothingLost, TypeOK, Garbled
      <3> QED
        BY <1>0, <1>2, <1>3, <3>1, <3>2
    <2>3. sent'[Base + 1] = <<handled + 1, 0>>
      <3>1. CASE Base = L
        <4>1. handled + 1 = K /\ 1 \in 1..n
          BY <1>0, <1>2, <3>1 DEF IInv, NothingLost
        <4>2. sent'[L + 1] = <<K, 1 - 1>>
          BY <1>6, <4>1
        <4> QED
          BY <3>1, <4>1, <4>2
      <3>2. CASE Base # L
        <4>1. Base + 1 \in 1..L /\ sent[Base + 1] = <<handled + 1, 0>>
          BY <3>2, InBuffer DEF IInv, NothingLost
        <4> QED
          BY <1>6, <4>1
      <3> QED
        BY <3>1, <3>2
    <2> QED
      BY <1>1, <1>6, <1>8, <1>14, <2>1, <2>2, <2>3 DEF NothingLost
  <1>16. Calm'
    <2>1. ASSUME NEW i \in 0..Count - 1
          PROVE  IsLast(recvBuffer[i])' <=> IsLast(recvBuffer[i])
      <3>1. Base + 1 + i \in 1..L /\ recvBuffer[i] = sent[Base + 1 + i]
        BY SMTT(30), InBuffer DEF IInv, NothingLost
      <3>2. PICK k \in 1..Len(sizes) : \E m \in 0..Whole(k) - 1 : recvBuffer[i] = <<k, m>>
        BY <3>1 DEF IInv, Structure
      <3>3. recvBuffer[i][1] = k
        BY <3>2
      <3> QED
        BY <1>1, <1>8, <3>3 DEF IsLast
    <2>2. /\ recv \in {"armed", "done"} => \A i \in 0..tcpReceived - 1 : i \in 0..Count - 1
          /\ recv = "done" =>
               \A i \in tcpReceived..tcpReceived + bytes - 1 : i \in 0..Count - 1
      BY ClientAssumption DEF Count, IInv, TypeOK
    <2> QED
      BY <1>1, <2>1, <2>2 DEF IInv, Calm
  <1>17. TypeOK'
    BY <1>1, <1>6, <1>7, <1>8 DEF IInv, TypeOK
  <1> QED
    BY <1>11, <1>12, <1>13, <1>15, <1>16, <1>17 DEF IInv

LEMMA NextInv == IInv /\ [Next]_vars => IInv'
  <1> SUFFICES ASSUME IInv, [Next]_vars PROVE IInv'
    OBVIOUS
  <1>1. CASE Disconnected
    BY <1>1, QuietInv DEF Disconnected, netVars, IInv, TypeOK
  <1>2. CASE Fail
    BY <1>2, QuietInv DEF Fail, netVars, IInv, TypeOK
  <1>3. ASSUME NEW how \in {"fin", "rst"}, ServerCloses(how)
        PROVE  IInv'
    BY <1>3, QuietInv DEF ServerCloses
  <1>4. CASE UNCHANGED vars
    BY <1>4, QuietInv DEF vars, bufferVars, netVars, IInv, TypeOK
  <1> QED
    BY <1>1, <1>2, <1>3, <1>4, LoginInv, HandleInv, WaitInv, NothingInv, DeliverInv,
       SendsInv DEF Next, OnReceive, Network

LEMMA Invariant == Spec => []IInv
  BY InitInv, NextInv, PTL DEF Spec

(* All variables keep their types.                                         *)
THEOREM TypeCorrect == Spec => []TypeOK
  <1>1. IInv => TypeOK
    BY DEF IInv
  <1> QED
    BY <1>1, Invariant, PTL

(* The client handles the packets of the server whole, once, in order.     *)
THEOREM NothingIsLost == Spec => []NothingLost
  <1>1. IInv => NothingLost
    BY DEF IInv
  <1> QED
    BY <1>1, Invariant, PTL

(* No receive is begun without room.                                       *)
THEOREM NeverIsFull == Spec => []NeverFull
  <1>1. IInv => NeverFull
    BY ClientAssumption DEF IInv, NeverFull, Armed, TypeOK
  <1> QED
    BY <1>1, Invariant, PTL

(* No whole packet waits in the buffer while no receive brings two ends.   *)
THEOREM KeepsUpAlways == Spec => []KeepsUp
  <1>1. IInv => KeepsUp
    <2> SUFFICES ASSUME IInv, calm, recv = "armed", NEW k \in 1..Len(sizes),
                        Whole(k) <= tcpReceived, Front(k, Whole(k))
                 PROVE  FALSE
      BY DEF KeepsUp, Whole
    <2>1. Whole(k) \in Nat /\ Whole(k) > 0 /\ tcpReceived \in Nat
      BY PayloadSizes, ClientAssumption DEF IInv, TypeOK
    <2>2. Whole(k) - 1 \in 0..tcpReceived - 1 /\ Whole(k) - 1 \in 0..Whole(k) - 1
      BY <2>1
    <2>3. recvBuffer[Whole(k) - 1] = <<k, Whole(k) - 1>>
      BY <2>2 DEF Front
    <2>4. IsLast(recvBuffer[Whole(k) - 1])
      BY <2>1, <2>3, LastByte DEF IInv
    <2> QED
      BY <2>2, <2>4 DEF IInv, Calm
  <1> QED
    BY <1>1, Invariant, PTL
===============================================================================
