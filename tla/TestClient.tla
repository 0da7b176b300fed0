------------------------------- MODULE TestClient -------------------------------
(***************************************************************************)
(* The console client (CSharpTest/Program.cs): Main sends a login and      *)
(* begins to receive; each receive ends in the callback OnReceive, which   *)
(* takes one packet out of the buffer if a whole one is there, moves the   *)
(* rest to the front and receives again behind it.                         *)
(*                                                                         *)
(* The server and the network are external: the server sends packets of    *)
(* the client's own format, a protocol and the size of what follows, and   *)
(* TCP delivers their bytes in pieces of any size.                         *)
(***************************************************************************)
EXTENDS Integers, Sequences

CONSTANTS BufSize,      (* BUFFSIZE                                        *)
          HeaderSize,   (* sizeof(Protocol) + sizeof(Int32)                *)
          Payloads,     (* what follows the header, in bytes               *)
          MaxPackets    (* bound: packets the server sends                 *)

ASSUME ClientAssumption ==
  /\ HeaderSize \in Nat \ {0} /\ BufSize \in Nat /\ HeaderSize <= BufSize
  /\ \A payload \in Payloads : payload \in Nat /\ HeaderSize + payload <= BufSize
  /\ MaxPackets \in Nat

VARIABLES
  main,          (* Main: "connected", "receiving" (it spins) or "ended"   *)
  recvBuffer,
  tcpReceived,   (* how much of the buffer is in use                       *)
  recv,          (* the receive: "none", "armed", "failed", or "done" with *)
  bytes,         (* this many bytes; the callback has not run then         *)
  offset, size,  (* where the receive puts its data, and its room          *)
  link,          (* "up", "fin" or "rst" by the server                     *)
  sizes,         (* of the payloads of the packets sent                    *)
  sent,          (* all bytes sent                                         *)
  stream,        (* those still on the way                                 *)
  handled,       (* history: how many packets were handled, or Garbled     *)
                 (* once something else than the next one was              *)
  calm           (* history: no receive brought the ends of two packets    *)

bufferVars == <<recvBuffer, tcpReceived, offset, size>>
netVars    == <<link, sizes, sent, stream>>
vars == <<main, bufferVars, recv, bytes, netVars, handled, calm>>

Packets == 1..MaxPackets
Garbled == MaxPackets + 1
Zero    == <<0, 0>>
Bytes   == {Zero} \cup (Packets \X (0..BufSize - 1))  (* packet, position  *)
Cells   == 0..BufSize - 1

TypeOK ==
  /\ main        \in {"connected", "receiving", "ended"}
  /\ recvBuffer  \in [Cells -> Bytes]
  /\ tcpReceived \in 0..BufSize
  /\ recv        \in {"none", "armed", "failed", "done"}
  /\ bytes       \in 0..BufSize
  /\ offset      \in 0..BufSize
  /\ size        \in 0..BufSize - offset
  /\ link        \in {"up", "fin", "rst"}
  /\ sizes       \in Seq(Payloads)
  /\ sent        \in Seq(Bytes)
  /\ stream      \in Seq(Bytes)
  /\ handled     \in 0..Garbled
  /\ calm        \in BOOLEAN

Init ==
  /\ main = "connected"
  /\ recvBuffer = [c \in Cells |-> Zero]
  /\ tcpReceived = 0
  /\ recv = "none" /\ bytes = 0 /\ offset = 0 /\ size = 0
  /\ link = "up" /\ sizes = <<>> /\ sent = <<>> /\ stream = <<>>
  /\ handled = 0 /\ calm = TRUE

-------------------------------------------------------------------------------

(* Mutant: the room is not reduced by what is in the buffer.               *)
ReceiveWhole(at) ==
  /\ recv' = "armed"
  /\ offset' = at
  /\ size' = BufSize

(* ReceiveForSelf(at, BUFFSIZE - at).                                      *)
ReceiveForSelf(at) ==
  /\ recv' = "armed"
  /\ offset' = at
  /\ size' = BufSize - at

(* Main sends the login, and goes on only if that has completed already.   *)
Login ==
  /\ main = "connected"
  /\ \/ /\ main' = "receiving"
        /\ ReceiveForSelf(0)
     \/ /\ main' = "ended"
        /\ UNCHANGED <<recv, offset, size>>
  /\ UNCHANGED <<recvBuffer, tcpReceived, bytes, netVars, handled, calm>>

(* Packet k lies at the front of the buffer, up to its position n.         *)
Front(k, n) == \A i \in 0..n - 1 : recvBuffer[i] = <<k, i>>

(* The payload's size the header says; what is no header may say any.      *)
SizesRead ==
  IF \E k \in 1..Len(sizes) : Front(k, HeaderSize)
  THEN {sizes[k] : k \in {j \in 1..Len(sizes) : Front(j, HeaderSize)}}
  ELSE -HeaderSize..BufSize

(* Mutant: the header stays in the buffer.                                 *)
ShiftLeftPayload(n) ==
  recvBuffer' = [c \in Cells |-> IF c + n - HeaderSize \in Cells
                                 THEN recvBuffer[c + n - HeaderSize] ELSE Zero]

ShiftLeft(n) ==
  recvBuffer' = [c \in Cells |-> IF c + n < BufSize THEN recvBuffer[c + n]
                                                    ELSE Zero]

(* Mutant: a packet needs a byte more than it has.                         *)
WholeAndMore(count, n) == HeaderSize <= count /\ n < count

(* A packet of n bytes is in the first count bytes.                        *)
WholePacket(count, n) == HeaderSize <= count /\ n <= count

(* What follows the comparison of line 234, that the payload is not larger *)
(* than the buffer, is then true.                                          *)
HandlePacket ==
  LET count == tcpReceived + bytes IN
  /\ recv = "done" /\ bytes > 0 /\ count >= HeaderSize
  /\ \E payload \in SizesRead :
       LET n == HeaderSize + payload IN
       /\ WholePacket(count, n)
       /\ tcpReceived' = count - n
       /\ ShiftLeft(n)
       /\ handled' = IF handled < Len(sizes) /\ n = HeaderSize + sizes[handled + 1]
                        /\ Front(handled + 1, n)
                     THEN handled + 1 ELSE Garbled
  /\ ReceiveForSelf(tcpReceived')
  /\ UNCHANGED <<main, bytes, netVars, calm>>

(* Mutant: the receive is not renewed while a packet is not complete.      *)
WaitForNothing ==
  LET count == tcpReceived + bytes IN
  /\ recv = "done" /\ bytes > 0
  /\ \/ count < HeaderSize
     \/ \E payload \in SizesRead : ~ WholePacket(count, HeaderSize + payload)
  /\ tcpReceived' = count
  /\ recv' = "none"
  /\ UNCHANGED <<main, recvBuffer, bytes, offset, size, netVars, handled,
                 calm>>

(* There is no whole packet: more is needed.                               *)
WaitForMore ==
  LET count == tcpReceived + bytes IN
  /\ recv = "done" /\ bytes > 0
  /\ \/ count < HeaderSize
     \/ \E payload \in SizesRead : ~ WholePacket(count, HeaderSize + payload)
  /\ tcpReceived' = count
  /\ ReceiveForSelf(count)
  /\ UNCHANGED <<main, recvBuffer, bytes, netVars, handled, calm>>

(* Zero bytes, because the server closed or the buffer is full: the client *)
(* receives again.                                                         *)
ReceiveNothing ==
  /\ recv = "done" /\ bytes = 0
  /\ ReceiveForSelf(tcpReceived)
  /\ UNCHANGED <<main, recvBuffer, tcpReceived, bytes, netVars, handled, calm>>

(* The receive failed, and the socket is not connected any more: the       *)
(* callback returns.                                                       *)
Disconnected ==
  /\ recv = "failed"
  /\ recv' = "none"
  /\ UNCHANGED <<main, bufferVars, bytes, netVars, handled, calm>>

OnReceive == HandlePacket \/ WaitForMore \/ ReceiveNothing \/ Disconnected

-------------------------------------------------------------------------------
(* The server and the network.                                             *)

PacketBytes(k, n) == [i \in 1..n |-> <<k, i - 1>>]

ServerSends(payload) ==
  LET packet == PacketBytes(Len(sizes) + 1, HeaderSize + payload) IN
  /\ link = "up" /\ Len(sizes) < MaxPackets
  /\ sizes'  = Append(sizes, payload)
  /\ sent'   = sent \o packet
  /\ stream' = stream \o packet
  /\ UNCHANGED <<main, bufferVars, recv, bytes, link, handled, calm>>

ServerCloses(how) ==
  /\ link = "up"
  /\ link' = how
  /\ UNCHANGED <<main, bufferVars, recv, bytes, sizes, sent, stream, handled,
                 calm>>

(* A byte is the last of its packet.                                       *)
IsLast(b) == b[2] = HeaderSize + sizes[b[1]] - 1

(* The receive completes: with n bytes, or with none if it had no room or  *)
(* the server closed.                                                      *)
Deliver(n) ==
  /\ recv = "armed" /\ link # "rst"
  /\ n <= Len(stream) /\ n <= size
  /\ n = 0 => IF stream = <<>> THEN link = "fin" ELSE size = 0
  /\ recv' = "done" /\ bytes' = n
  /\ recvBuffer' = [c \in Cells |-> IF c \in offset..offset + n - 1
                                    THEN stream[c - offset + 1]
                                    ELSE recvBuffer[c]]
  /\ stream' = SubSeq(stream, n + 1, Len(stream))
  /\ calm' = (calm /\ \A i, j \in 1..n :
                IsLast(stream[i]) /\ IsLast(stream[j]) => i = j)
  /\ UNCHANGED <<main, tcpReceived, offset, size, link, sizes, sent, handled>>

(* It fails when the connection is reset: what was on the way is lost.     *)
Fail ==
  /\ recv = "armed" /\ link = "rst"
  /\ recv' = "failed"
  /\ UNCHANGED <<main, bufferVars, bytes, netVars, handled, calm>>

Network == Fail \/ \E n \in 0..BufSize : Deliver(n)

Next ==
  \/ Login
  \/ OnReceive
  \/ Network
  \/ \E payload \in Payloads : ServerSends(payload)
  \/ \E how \in {"fin", "rst"} : ServerCloses(how)

Spec == Init /\ [][Next]_vars

(* Callbacks are run, and what was sent arrives.                           *)
FairSpec == Spec /\ WF_vars(OnReceive) /\ WF_vars(Network)

-------------------------------------------------------------------------------
(* What the client has received and not handled.                           *)
Count == tcpReceived + (IF recv = "done" THEN bytes ELSE 0)

(* How much of what was sent it has handled.                               *)
Base == Len(sent) - Len(stream) - Count

(* Whatever pieces TCP delivers: the packets handled are those the server  *)
(* sent, each whole and once, in their order, and the buffer holds the     *)
(* bytes that follow, up to those on the way (OnReceive, ShiftLeft).       *)
NothingLost ==
  /\ handled <= Len(sizes)
  /\ Base >= 0
  /\ IF Base = Len(sent) THEN handled = Len(sizes)
                         ELSE sent[Base + 1] = <<handled + 1, 0>>
  /\ \A i \in 0..Count - 1 : recvBuffer[i] = sent[Base + 1 + i]

(* The buffer is never full when the client receives again, so that no     *)
(* receive has no room and ends at once with nothing, for ever: as long as *)
(* packets fit the buffer (HandlePacket, ReceiveForSelf).                  *)
NeverFull == recv = "armed" => size > 0

(* As long as no receive brings the ends of two packets, no whole packet   *)
(* waits in the buffer while the client waits for more (OnReceive handles  *)
(* one packet in a call).                                                  *)
KeepsUp ==
  calm /\ recv = "armed" =>
    ~ \E k \in 1..Len(sizes) :
        /\ HeaderSize + sizes[k] <= tcpReceived
        /\ Front(k, HeaderSize + sizes[k])

(* And then every packet sent to a client that receives is handled, unless *)
(* the connection is reset.                                                *)
AllHandled ==
  \A k \in Packets :
    (Len(sizes) >= k /\ main = "receiving")
      ~> (handled >= k \/ ~ calm \/ link = "rst")
===============================================================================
