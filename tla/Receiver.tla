-------------------------------- MODULE Receiver --------------------------------
(***************************************************************************)
(* How one session turns the bytes of TCP into packets (Session::Swallow   *)
(* and Recv, Asynchron): the buffer at the grain of its bytes.             *)
(*                                                                         *)
(* The completions of the session are handled one at a time, in the order  *)
(* they come, and by this session: what happens otherwise is Framework's.  *)
(* A receive brings as much as TCP likes: part of a packet, several.       *)
(***************************************************************************)
EXTENDS Integers, Sequences

CONSTANTS BufSize,      (* BUFSIZ                                          *)
          LastSize,     (* sizeof(myLastPacket)                            *)
          HeaderSize,   (* sizeof(BasicPacket)                             *)
          Sizes,        (* the sizes of the packets clients send           *)
          MaxPackets,   (* bound: packets of one connection                *)
          MaxConnections

ASSUME ReceiverAssumption ==
  /\ HeaderSize \in Nat \ {0} /\ BufSize \in Nat /\ HeaderSize < BufSize
  /\ \A size \in Sizes : size \in Nat /\ HeaderSize <= size /\ size <= BufSize
  /\ LastSize \in Nat /\ MaxPackets \in Nat /\ MaxConnections \in Nat

VARIABLES
  myState,       (* "NONE", "ACCEPTED", or "CLOSING" after BeginDisconnect *)
  myRecvSize,    (* bytes received and not yet assembled                   *)
  myData,        (* the bytes of the buffer                                *)
  buf, len,      (* the WSABUF: where the last receive was to put its data *)
  myLastPacket,
  recv,          (* the receive: "none", "armed", or "done" with ...       *)
  bytes,         (* ... this many bytes, its completion not yet handled    *)
  sizes,         (* of the packets sent on this connection                 *)
  stream,        (* their bytes on the way                                 *)
  returned,      (* history: how many packets of the connection Swallow    *)
                 (* has returned in their order, or Garbled once it        *)
                 (* returned something else                                *)
  regular,       (* history: each receive since the last Cleanup brought   *)
                 (* exactly one packet, and none was still to be handled   *)
                 (* then                                                   *)
  overrun,       (* history: a copy since the last Cleanup went behind     *)
                 (* myLastPacket, into the OVERLAPPED of myDisconnector    *)
  connections

bufferVars == <<myRecvSize, myData, buf, len, myLastPacket>>
netVars    == <<sizes, stream, connections>>
vars == <<myState, bufferVars, recv, bytes, netVars, returned, regular,
          overrun>>

Packets == 1..MaxPackets
Garbled == MaxPackets + 1   (* a packet made of bytes of several, or none  *)
Zero    == <<0, 0>>
Bytes   == {Zero} \cup (Packets \X (0..BufSize - 1))  (* packet, position  *)
Cells   == 0..BufSize - 1

TypeOK ==
  /\ myState      \in {"NONE", "ACCEPTED", "CLOSING"}
  /\ myRecvSize   \in 0..BufSize
  /\ myData       \in [Cells -> Bytes]
  /\ buf          \in 0..BufSize
  /\ len          \in 0..BufSize
  /\ myLastPacket \in 0..Garbled
  /\ recv         \in {"none", "armed", "done"}
  /\ bytes        \in 0..BufSize
  /\ sizes        \in Seq(Sizes)
  /\ stream       \in Seq(Bytes)
  /\ returned     \in 0..Garbled
  /\ regular      \in BOOLEAN
  /\ overrun      \in BOOLEAN
  /\ connections  \in 0..MaxConnections

Init ==
  /\ myState = "NONE"
  /\ myRecvSize = 0 /\ myData = [c \in Cells |-> Zero]
  /\ buf = 0 /\ len = 0
  /\ myLastPacket = 0
  /\ recv = "none" /\ bytes = 0
  /\ sizes = <<>> /\ stream = <<>> /\ connections = 0
  /\ returned = 0 /\ regular = TRUE /\ overrun = FALSE

-------------------------------------------------------------------------------

(* The packet k lies in the buffer at an offset, up to its position n.     *)
Lies(k, at, n) ==
  at + n <= BufSize /\ \A i \in 0..n - 1 : myData[at + i] = <<k, i>>

HeaderOf(k, at) == Lies(k, at, HeaderSize)

(* What GetSize may read at an offset.  What is no header of a packet and  *)
(* not zero, or is behind the buffer, may say any size; BufSize + 1 stands *)
(* for all that are more than was received.                                *)
SizesAt(at) ==
  IF \E k \in 1..Len(sizes) : HeaderOf(k, at)
  THEN {sizes[k] : k \in {j \in 1..Len(sizes) : HeaderOf(j, at)}}
  ELSE IF at + HeaderSize <= BufSize
            /\ \A i \in 0..HeaderSize - 1 : myData[at + i] = Zero
  THEN {0}
  ELSE 0..BufSize + 1

(* The packets that lie at an offset with this size.                       *)
Whole(at, size) ==
  {k \in 1..Len(sizes) : sizes[k] = size /\ Lies(k, at, size)}

(* What the packet returned is when size bytes were copied from an offset. *)
(* The bytes that myLastPacket has no room for are those of the            *)
(* disconnector, which may be in use: they may be read as written or not.  *)
CopyFrom(at, size) ==
  LET copied == IF size = 0 THEN {myLastPacket}
                ELSE IF Whole(at, size) # {} THEN Whole(at, size)
                ELSE {Garbled}
  IN  IF size > LastSize THEN copied \cup {Garbled} ELSE copied

(* Mutant: the size in the header is not compared with what was received.  *)
EnoughForHeader(size, count) == count >= HeaderSize /\ size <= BufSize

Enough(size, count) == count >= HeaderSize /\ size <= count

(* Mutant: the receive may fill the whole buffer's length from its offset. *)
RoomWhole(count) == BufSize

(* How much the renewed receive may bring: fullsize - additional_offsets.  *)
Room(count) == BufSize - count

-------------------------------------------------------------------------------

(* Ready and BeginRecv: the first receive uses the WSABUF as it was left.  *)
Connect ==
  /\ connections < MaxConnections
  /\ myState = "NONE" /\ recv = "none"
  /\ myState' = "ACCEPTED"
  /\ recv' = "armed"
  /\ sizes' = <<>> /\ stream' = <<>>
  /\ connections' = connections + 1
  /\ UNCHANGED <<bufferVars, bytes, returned, regular, overrun>>

Send(size) ==
  /\ myState = "ACCEPTED" /\ Len(sizes) < MaxPackets
  /\ sizes' = Append(sizes, size)
  /\ stream' = stream \o [i \in 1..size |-> <<Len(sizes) + 1, i - 1>>]
  /\ UNCHANGED <<myState, bufferVars, recv, bytes, returned, regular,
                 overrun, connections>>

OnePacket(n) == /\ stream[1][2] = 0
                /\ n = sizes[stream[1][1]]

(* WSARecv completes with n bytes; one of length zero when there are some. *)
Deliver(n) ==
  /\ recv = "armed" /\ stream # <<>>
  /\ n <= len /\ n <= Len(stream) /\ (n = 0 <=> len = 0)
  /\ recv' = "done" /\ bytes' = n
  /\ myData' = [c \in Cells |-> IF c \in buf..buf + n - 1
                                THEN stream[c - buf + 1] ELSE myData[c]]
  /\ stream' = SubSeq(stream, n + 1, Len(stream))
  /\ regular' = (regular /\ (n = 0 \/ OnePacket(n)))
  /\ UNCHANGED <<myState, myRecvSize, buf, len, myLastPacket, sizes, returned,
                 overrun, connections>>

(* Swallow counts what was received and, if that is enough for the packet  *)
(* at buf, copies it out.                                                  *)
Assemble(result) ==
  LET count == myRecvSize + bytes IN
  \E size \in IF count >= HeaderSize THEN SizesAt(buf) ELSE {BufSize + 1} :
    /\ result = Enough(size, count)
    /\ myRecvSize' = IF result THEN count - size ELSE count
    /\ \E packet \in IF result THEN CopyFrom(buf, size) ELSE {myLastPacket} :
         myLastPacket' = packet
    /\ overrun' = (overrun \/ (result /\ size > LastSize))
    /\ UNCHANGED myData

Return(result) ==
  returned' = IF ~ result THEN returned
              ELSE IF returned # Garbled /\ myLastPacket' = returned + 1
              THEN returned + 1
              ELSE Garbled

(* The session is gone: what was assembled is still returned.              *)
SwallowGone ==
  \E result \in BOOLEAN :
    /\ recv = "done" /\ myState = "NONE"
    /\ Assemble(result)
    /\ Return(result)
    /\ recv' = "none"
    /\ UNCHANGED <<myState, buf, len, bytes, netVars, regular>>

Rearm ==
  /\ buf' = myRecvSize'
  /\ len' = Room(myRecvSize')

(* The receive is renewed and finds data: it completes at once.            *)
SwallowAndReceive ==
  \E result \in BOOLEAN :
    /\ recv = "done" /\ myState = "ACCEPTED" /\ stream # <<>>
    /\ Assemble(result)
    /\ Return(result)
    /\ Rearm
    /\ recv' = "armed"
    /\ UNCHANGED <<myState, bytes, netVars, regular>>

(* It finds none yet and is pending, or fails as the socket disconnects:   *)
(* either is taken for an error, and the result is lost.                   *)
SwallowAndLose ==
  \E result \in BOOLEAN :
    /\ recv = "done" /\ myState # "NONE"
    /\ Assemble(result)
    /\ Rearm
    /\ recv' = IF myState = "ACCEPTED" THEN "armed" ELSE "none"
    /\ myState' = "CLOSING"
    /\ UNCHANGED <<bytes, netVars, returned, regular>>

(* A client's reset ends the receive in an error, as does disconnecting.   *)
Reset ==
  /\ recv = "armed" /\ myState # "NONE"
  /\ recv' = "none"
  /\ stream' = <<>>
  /\ myState' = "CLOSING"
  /\ UNCHANGED <<bufferVars, bytes, sizes, returned, regular, overrun,
                 connections>>

(* Mutant: the count of what was received survives the connection.         *)
CleanupKeepingCount ==
  /\ myState' = "NONE"
  /\ UNCHANGED <<myRecvSize, buf, myLastPacket>>
  /\ myData' = [c \in Cells |-> Zero]
  /\ len' = 0

(* Session::Cleanup and Asynchron::Clear.                                  *)
Cleanup ==
  /\ myState' = "NONE"
  /\ myRecvSize' = 0
  /\ myData' = [c \in Cells |-> Zero]
  /\ len' = 0
  /\ UNCHANGED <<buf, myLastPacket>>

(* The disconnection completed, behind the completions of the receive.  If *)
(* its OVERLAPPED was overwritten it need not: no step is due in this      *)
(* module.  What else the operation overwritten there may start is not     *)
(* followed.                                                               *)
Dispose ==
  /\ myState = "CLOSING" /\ recv = "none"
  /\ Cleanup
  /\ regular' = TRUE /\ returned' = 0 /\ overrun' = FALSE
  /\ UNCHANGED <<recv, bytes, netVars>>

(* The request just returned was CS_DISPOSE: the session is cleaned up     *)
(* although its receive has been renewed, and perhaps completed.           *)
DisposeNow ==
  /\ myState = "ACCEPTED" /\ returned # 0
  /\ Cleanup
  /\ recv' = IF recv = "done" THEN "done" ELSE "none"
  /\ regular' = (recv # "done") /\ returned' = 0 /\ overrun' = FALSE
  /\ UNCHANGED <<bytes, netVars>>

Next ==
  \/ Connect \/ Reset \/ Dispose \/ DisposeNow
  \/ \E size \in Sizes : Send(size)
  \/ \E n \in 0..BufSize : Deliver(n)
  \/ SwallowGone \/ SwallowAndReceive \/ SwallowAndLose

Spec == Init /\ [][Next]_vars

-------------------------------------------------------------------------------

(* The receive never writes behind its buffer, and what is counted fits    *)
(* in it, so that the unsigned size - additional_offsets of Recv does not  *)
(* wrap, whatever pieces TCP delivers and whatever the headers read say    *)
(* (Swallow, Recv).  Of the copy out of the buffer it says nothing.        *)
Window ==
  /\ myRecvSize <= BufSize
  /\ recv = "armed" => buf + len <= BufSize /\ myRecvSize + len <= BufSize
  /\ recv = "done"  => myRecvSize + bytes <= BufSize

Fits == \A k \in 1..Len(sizes) : sizes[k] <= LastSize

(* As long as every receive brings exactly one packet, and the client      *)
(* sends none that is larger than myLastPacket, Swallow returns the        *)
(* packets of the connection, each once, in the order they were sent, and  *)
(* nothing of the connection before, and its copy leaves the disconnector  *)
(* alone (Swallow, Cleanup).  Without either condition all of it is false. *)
Reassembles ==
  regular /\ Fits =>
    returned # Garbled /\ returned <= Len(sizes) /\ ~ overrun

(* Swallow "returns the completed packets" of what was received            *)
(* (Session.hpp:57), however TCP cuts them.                                *)
ReturnsCompleted ==
  returned # Garbled
===============================================================================
