# A verification project for the 2023 graduation project's game server

The repository is a game: a C++20 server on Windows I/O completion ports
(`src/Server/Server`), a Unity client (`src/Client`), a console test client
(`src/Server/CSharpTest`) and SQL scripts (`src/Server/queries`). This
directory models the server's own concurrent logic and the receiving side of
the console client in TLA+, checks them with TLC and proves the most important
results with TLAPS. Comments in the source are
Korean; where they are quoted here they are translated.

## 1. Inventory

| Component | State | Operations | Module |
|---|---|---|---|
| Acceptor and socket pool, `ConnectService.hpp` | `socketsPool` (deque), `connectNewbie`, `connectWorker` (the one OVERLAPPED of AcceptEx) | Awake, Start, Update, Push, Pop, Accept | `ConnectService`, `SocketCycle`, `SocketPool` |
| Completion handlers, `Framework.cpp` | `numberUsers`, the workers' locals, the completion port | Worker, RouteSucceed, RouteFailed, ProceedAccept, AcceptPlayer, ProceedRecv, ProceedSent, ProceedBeginDiconnect, ProceedDispose | `Framework` |
| Session, `Session.hpp` | `myState`, `mySocket`, `myAuthority`, `myReceiver`, `myRecvSize`, `myLastPacket`, `myDisconnector` | Ready, Acquire, Release, BeginRecv, Recv, Swallow, BeginDisconnect, Disconnect, Cleanup, BeginSend, Send | `Framework`, `Receiver`, `Transmission` |
| Spin lock, `Spinlock.inl` | one flag | lock, unlock, try_lock (not called) | in `Framework` |
| Overlapped contexts, `Asynchron.hpp`, `Context.hpp` | WSABUF and data of a receive or a send | Recv, Send, Clear, SetBuffer | in `Framework`, `Receiver`, `Transmission` |
| Database service, `DatabaseService.cpp`, `DatabaseQuery.*` | `myJobQueue`, `myLastJob`, statement handles | PushJob, PopJob, IsEmpty, CreateQuery, Execute, Fetch, Bind; the thread DBaseWorker | `DatabaseService` |
| Packets, `BasicPacket.hpp`, `Packet.hpp`, `pch.hpp` | header: a protocol byte and a 16-bit size | read and written by the others | in `Framework`, `Receiver` |
| Sending, `Framework.cpp`, `Session.hpp` | send contexts and what is left to send | CreateTicket, SendLoginResult, BeginSend, Send, ProceedSent | `Transmission`, `Delivery` |
| Start and stop, `Framework.cpp`, `Server.cpp` | threads, stop source, latch | Awake, Start, Update, Release, the destructor | not modelled (section 7) |
| Unity client, `Assets/Network/*.cs` | connection state, receive buffer | connect and retry, receive callback, assembly | not modelled (section 7) |
| Console test client, `CSharpTest/Program.cs` | `recvBuffer`, `tcpReceived` | Main, BeginReceive, ReceiveForSelf, OnReceive, ShiftLeft | `TestClient` |
| Rooms, game objects, hashing, arithmetic templates | no state the server uses | none | not modelled |

How they interact. Six worker threads dequeue completions from one port
(`GetQueuedCompletionStatus`) and call the handler: ACCEPT goes to
ProceedAccept, which has the acceptor take the next socket and re-arm AcceptEx
and gives the accepted socket to a free session, to whose client it sends the
server's status; RECV goes to the session's
Swallow, which renews the receive, and then to the request; a failed RECV
starts an overlapped disconnection; its completion, DISPOSE, gives the socket
back to the pool and cleans the session up. A login pushes a query to the
database service, whose own thread executes it. Each packet sent has a context
of its own on the heap: SEND goes to ProceedSent, which sends what is left or
deletes the context. Sessions are shared by all
workers and protected by a spin lock that does not know its owner. Which
session a completion belongs to is only in the key the socket was linked to the
port with.

What is hard here: six workers in handlers with several critical sections each;
a lock that any thread can clear and that some paths never clear; state read
before a lock and used under it (or after it); completions in any order with
resets and disconnections; a pool that runs empty; TCP cutting packets anywhere;
an unlocked look at a queue; contexts that the kernel and the workers pass to
each other; failures nobody handles. `PROJECT.json` lists each
under "hazards" with its line.

What makes each component correct:

* acceptor: one AcceptEx outstanding; every socket in one place; a connection
  is handed on once; accepting goes on while a usable socket is next;
* handlers and sessions: one worker inside a session at a time; released by its
  owner; the socket of a session changes under its lock; every socket has one
  owner; one receive outstanding per session; a connection is counted out as
  often as in, its socket is given back once, and one that ended is not forgotten;
  workers come back to the port; a reset leads to cleanup;
* receive path: receives stay inside the receive buffer; the packets are returned,
  in order, and their copy stays inside `myLastPacket` (the code guarantees that
  only for packets of at most its 200 bytes, see Receiver below);
* database service: queue never popped empty; each query executed once, in
  order; each one freed;
* sending: a context is deleted once, by whoever has it, and never while the
  kernel reads it; the bytes of a packet go out once and in order however the
  kernel cuts it; every send ends;
* console client: packets come out whole, once and in order, whatever pieces
  TCP delivers; there is always room to receive; nothing received waits for the
  server to send more.

## 2. Modules

    SocketPool       abstract: each socket has one role, and roles change in a cycle
      ^ implements
    SocketCycle      the acceptor with a caller that keeps its side
      |  extends
    ConnectService   the acceptor's state and operations
      ^  extends
    Framework        the acceptor with the callers of the program: workers,
                     handlers, sessions, the kernel and the clients
    MCFramework      symmetry for TLC
    Receiver         one session's receive path, byte by byte
    DatabaseService  the workers that push queries and the thread that runs them
    Delivery         abstract: the bytes of a packet go out once and in order
      ^ implements
    Transmission     contexts of sends, the kernel, the workers that go on with them
    TestClient       the console client's receive callback and its buffer
    *Proofs          the theorems of SocketCycle, Framework (FrameworkProofs,
                     OwnershipProofs, OneConnectionProofs), Receiver,
                     DatabaseService, Transmission, TestClient

**ConnectService** has one operator per step of `Update`: load the socket just
connected, pop the next one and store it, call AcceptEx on it. The three can
interleave with other workers, for nothing in `Update` is locked.
`connectWorker` is "idle" from the moment its completion is taken. `Push` puts
at the front and `Pop` takes from the back of the deque, under the pool's lock,
which is held within one step.

**SocketCycle** gives the acceptor a caller that does what ProceedAccept should
do: it dispatches only a completion of AcceptEx, keeps or refuses the socket,
and returns it once. Returning takes two steps, as in ProceedDispose: `Return`
pushes the socket (Framework.cpp:504) while the session still names it, and
`Cleanup` lets go of it later (507). In between (`leaving`) another worker may pop
it, accept on it and give it to a second session. This isolates what the acceptor
promises *if* its callers keep their side: that a session whose DISPOSE was handled
is not disconnected or disposed of again before its Cleanup is the caller's side,
and the real caller does not always keep it (with two connections it may push a
socket twice; Framework has that). **SocketPool** is that promise: each socket is free, is the one
being accepted on, or is out with a connection, goes round in that order, and no
two are being accepted on. `ImplementsPool` is the refinement, with `RoleOf` as the mapping.

**Framework** is the program's real caller. A step of a worker is the part of a
handler between two points at which another thread can be seen: a lock, an
atomic variable, a call of the kernel. `pc` names the place in the handler, `job`
the completion, `spot` the session `GetSession(key)` returned, `got` what Swallow
returned, `seen` what its search for a free session has read so far: the parallel
find_if reads the states one by one and in any order (`SeekRead`), and takes the
first it saw free (`SeekNewbiePlace`). `port` is the queue of completions; `recvq` the receives outstanding on
a socket; `inbox` and `link` what the client sent and how it left. `myLastPacket`,
`myRecvSize`, `myData`, `buf`, `sized` are the receiver of a session, where a
receive brings one whole packet. Every leaked lock, missing re-check and stale
value of the source is in the model as it is in the source.

**Receiver** opens up what Framework abstracts: the bytes of the buffer, the
WSABUF (`buf`, `len`) and the pieces TCP delivers. It has one session whose
completions are handled in order by one worker at a time. `Swallow` is
`SwallowGone`, `SwallowAndReceive` or `SwallowAndLose`, which are the outcomes of
its error check; `Cleanup` leaves `buf` where it was, as `Asynchron::Clear` does.
`LastSize` stands for the 200 bytes of `myLastPacket` (Session.hpp:387), into which
line 83 copies as many bytes as the header says. A larger copy runs into
`myDisconnector` behind it (`overrun`): what is read back of that packet is then
the packet or garbage, since an operation may be using those bytes. Only receives
stay inside their buffer whatever is sent; the copy does so for packets that fit.

**DatabaseService** has the workers' part of a login (`PushJob`, two `Bind`s on
a query they no longer own) and the loop of the database thread (`Check`
without the lock, `PopJob` under it, `Execute`, `Fetch`, `Free`).

**Transmission** keeps of a session its socket, and of a packet its context: a
cell of the heap (`heap`), its WSABUF (`buf`, `len`) and its length. The kernel
has a context while it is in `sends`; a completion carries it to the `port` and to
a worker (`job`). Three things of the code shape it: nobody looks at the result of
WSASend, so a send that fails at once is forgotten with its context; an answer
and the rest of a cut packet go through the session of the completion key,
which is session 0 whoever asked, so that an answer goes to session 0's client
(or none), and the rest of a packet may go out on another connection; and a failed
completion deletes nothing. `Accept` may overwrite a session that is in use, which
AcceptPlayer does not check.
`SendRest` is Session::Send, which moves the WSABUF and sends in one call of the
worker that has the context. The packet itself is never freed by the server; the
model has nothing to say of it. **Delivery** promises of a packet only what
survives this: the bytes that go out, on whatever connection, are its bytes in
order, and the packet is done only when all have. `Whole` adds what does hold of
connections, for packets the kernel does not cut: each goes out in one piece on the
connection it was first sent on (`target`), in the order of sending, and a server
status goes to the client that was accepted (`greeted`, set from the connection
accepted and not from the session). Of who gets an answer it claims nothing, since
nothing holds.

**TestClient** is `Main` from the login on and the callback OnReceive, whose
outcomes are `HandlePacket`, `WaitForMore`, `ReceiveNothing` and `Disconnected`.
A byte is a packet and a position; a header that lies at the front of the buffer
says its packet's size, and anything else may say any. The server it meets is
external and speaks the client's own format, a protocol and a size of four
bytes each; the repository's server writes a header of one and two bytes, so
the two do not understand each other and are not composed. Left as they are in
the code: one packet is handled in a call; line 236's test for an oversized
packet follows one that only holds if the packet fits (line 234); Main ends the
program if the login is not sent at once (line 87), and otherwise spins on a flag
nobody sets; after the server closes, receives of zero bytes go on.

What is assumed of the world (external in the map): AcceptEx takes a socket that
is new, or was disconnected with TF_REUSE_SOCKET; the code passes flags 0 to
DisconnectEx, so `Reusable = FALSE` is the program and `TRUE` explores the pool's
purpose. DisconnectEx fails on a socket that is not connected, and with `Faults` on
any, whether it is synchronous or overlapped; the synchronous callers go on as if it
had not (Framework.cpp:251). WSARecv
completes at once, is pending or fails; a receive of length zero completes with
zero bytes when there is something to read, and so does one on a connection the
client closed. Completions are queued first in, first out. SQLFetch returns rows,
then the end of the data or an error, each time. A send of at least a byte
completes with at least a byte; the sends of a connection go out in the order
they were begun, and fail once it has ended.

What is abstracted:

* Framework: sends and their completions, which are Transmission's, the
  completions of PostDatabaseJob (they change no state), the counting `myRecvSize +=`/`-=` in one step, one
  packet per receive, all requests that only reach the commented-out Release as
  one kind (CS_CHAT);
* the completion key is a constant, because Awake links every socket with the
  same one (its counter is never advanced);
* Receiver: the client closing (zero bytes for ever) is in Framework only; what
  a garbled header says is any size;
* Transmission: which handler runs when, and the locks, which ProceedSent does
  not take; a session is cleaned up at any time after some connection ended;
* TestClient: the console's dialogue, and the contents of the one packet sent;
* DatabaseService: one row per query, a failed execution by the codes that
  follow; the unlocked `empty()` sees the size before or after a concurrent push,
  which is what a word-sized read gives on the platform the project builds for;
  binding to a freed query fails, meets another query in the same place, or ends
  the program;
* memory orders: steps are sequentially consistent. Most of the program's atomic
  operations are acquire or release, but not all: `GetState` (Session.hpp:375) and
  `GetID` (370) are relaxed, as are the `Set...` members (330-355, never called),
  the first store of connectNewbie (ConnectService.hpp:105, before the workers
  exist) and the comparison in FindSession (Framework.cpp:782, never called).
  The one of them that a property depends on is GetState in Swallow, which runs under
  the session's lock; the unlocked looks at a session (SeekNewbiePlace, the sockets
  and states that handlers read) are sequentially consistent loads or acquires.

## 3. Runs

| Run | Instance | What it shows |
|---|---|---|
| `socket_cycle` | 3 sockets, 2 workers, 2 sessions, NULL may be returned while the pool has less than 4 | with a good caller: AcceptSingle, PoolDistinct, OnePlace, EndpointsAgree, the refinement ImplementsPool, and that accepting goes on (NextAcceptArmed) |
| `framework_safety` | 2 sockets, 2 workers, 2 connections of 1 packet of 4 kinds, closing, resets, faults | SessionMutex, ReleasedByOwner, SocketUnderLock, AcceptSingle, OneOwner, AcceptsOn, CountsBalance under every interleaving of two workers |
| `framework_reuse` | 3 sockets that serve again, 4 connections, resets | the server fills up, refuses, and takes sockets again |
| `framework_one` | 1 connection of 2 packets, closed or reset, fair | OneReceive, GivenBackOnce, NoneForgotten, WorkersComeBack, ResetCleansUp |
| `receiver` | buffer of 6 bytes, myLastPacket of 2, header of 2, packets of 2 and 3 bytes, 2 connections of 3 packets | Window, Reassembles |
| `database` | 2 workers, 3 queries, fair | PopsQueued, InOrder, EveryQueryFreed |
| `transmission` | 2 connections, 2 sessions, 2 workers, 3 packets of 2 bytes, fair | OneHolder, Whole, the refinement ImplementsDelivery, EverySendEnds |
| `test_client` | buffer of 7 bytes, header of 2, 4 packets of 2, 3 or 7 bytes, fair | NothingLost, NeverFull, KeepsUp, AllHandled |
| `swallows_its_own`, `own_session`, `login_answered`, `returns_completed` | small | what comments or the protocol description say and the code does not do: see below |

Bounds, and why they are enough. Two workers show every race of a pair of
handlers, and all races named in the hazards are between two. Three sockets are
enough for one in AcceptEx, one in use and one in the pool; two for one accepted
and one waiting. A session's lock can leak once and be met by another worker with
one packet per connection; two packets give a second receive. `UserSpan` = 8
stands for the 2^32 values of `numberUsers`, and leaves room for a decrement below
zero to show. In `receiver` a packet of the larger size and one of the smaller do not
fit the buffer twice, the header can be cut, and three packets let a garbled
count go on. In `transmission` two bytes are what it takes to cut a packet, two
connections let a rest go out on the wrong one, and three contexts one
outstanding on each and one with a worker. In `test_client` a packet of seven
bytes fills the buffer, several of two and three come together, and the header
can be cut. `MaxConnections`, `MaxPackets`, `MaxPool`, `MaxQueries` and `MaxSends` are the only
bounds on growing values. CHECK_DEADLOCK is off everywhere: the bounds end
runs, and a server whose acceptor has failed, or whose workers all wait for a
leaked lock, really stops; the liveness properties look at that instead.

Two properties of Framework speak of one connection only (OneReceive,
GivenBackOnce), and four of sockets that serve one connection (OneOwner, AcceptsOn,
NoneForgotten, CountsBalance), because more does not hold. With a second connection
the handlers of both work on session 0 (one completion key for all), so two receives
can be under way into its one buffer, and a socket can be pushed twice.
CountsBalance is about several connections: `numberUsers` can lose an update, because
AcceptPlayer loads it and stores it twelve lines later (Framework.cpp:598, 610), and
then be decremented below zero, where the unsigned wraps and CanAcceptPlayer refuses
everyone. It says that this race is the only way: as long as no store overtook
another worker's count (`overtaken`), each connection that is counted out was counted
in, once, however CS_DISPOSE, failed receives and disconnections of two connections
overlap on session 0. Without that premise TLC finds the wrap. With sockets that serve again, ProceedDispose
gives a socket back before its session lets go of it, so that it has two owners for
a while; a socket may become usable again after the acceptor gave up on it; and a
session that still has the socket of its first connection when the second one on
it ends is not cleaned up. These contradict no statement of the code; the
properties name their condition instead of hiding it in a bound (`connections <= 1`,
`~ Reusable`, `~ overtaken`). What is left is still a race of handlers: the one connection is
accepted by one worker, received from by any, reset, disconnected by CS_DISPOSE or a
failed receive and disposed of by others. NoneForgotten also assumes that no call of
the kernel fails: a failed DisconnectEx is not handled, and leaves the session as it
is. `framework_one` checks it for one connection; the theorem is for any number.
Reassembles names two conditions: each receive brings exactly one packet
(`regular`), and no packet is larger than myLastPacket (`Fits`).

What the four violations show:

* `login_answered`: Swallow checks the result of WSARecv for WSA_IO_PENDING instead
  of WSAGetLastError, so a pending receive (the normal case) disconnects the
  client and drops the request just assembled;
* `swallows_its_own`: all sockets have one completion key, so a receive of any
  session is handled by session 0;
* `own_session`: AcceptPlayer picks a free session before it locks it and does not
  look again: two connections accepted together share one;
* `returns_completed`: Swallow reads the header at the offset of the last receive
  and returns one packet per receive, so packets that TCP cuts or joins are
  garbled.

Four more disagreements the models contain but no run singles out: a packet is
read from the session after its lock was released and its receive renewed
(Framework.cpp:311); the Release at the end of ProceedRecv is commented out, so
that after most requests the session stays locked and its disconnection hangs
(Framework.cpp:488); a disposal stores a state loaded long before
(Framework.cpp:418); an answer goes to the client of session 0 whoever asked, and the
rest of a packet may go to another client (Framework.cpp:277, 349).

## 4. Fairness

`SocketCycle`: a worker that can go on does (its steps are not blocked by
anyone), and nothing is assumed of clients or of when sockets are returned.
`Framework`: weak fairness of each worker's steps together and of the kernel's
completions on each socket; threads are scheduled by the system and the kernel
completes what it accepted. Acquire is a test-and-set loop, so weak fairness
gives no worker the lock while another keeps taking it; none is needed by the
properties checked. Clients are under no fairness. `DatabaseService`: the database
thread runs; the 10 ms sleep between two looks at the queue is the stuttering
between two checks. Nothing is fair about workers there. `Transmission`: each
worker, and the kernel on each connection, as in Framework; neither those who
send nor those who hang up. `TestClient`: callbacks of receives that ended are run,
by the pool of threads of .NET, and what was sent arrives unless the connection
is reset; the server is under no fairness.

`WorkersComeBack` and `ResetCleansUp` assume that no lock has leaked, which the
model can see and the code cannot; otherwise workers spin for ever.
`WorkersComeBack` also assumes that a connection its client closed does not stay
connected for ever. While it does, every renewed receive completes at once with zero
bytes (Session.hpp:106), so one worker takes the session's lock again and again, and
another that waits for it may wait for ever although no lock leaked; TLC shows this
when the condition is dropped. The run has both ways of leaving, closing and
resetting.
`EveryQueryFreed` assumes that the threads are not told to stop, since DBaseWorker
leaves queued queries behind. `EverySendEnds` needs no such condition, since
ProceedSent takes no lock and each completion of a send leaves less of it.
`AllHandled` needs that no receive brought the ends of two packets: OnReceive
handles one per call, so the second waits until the server sends again.

## 5. Proofs

All theorems are about every number of workers, sockets, packets and queries; the
named assumptions (`ConnectAssumption`, `CycleAssumption`, `FrameworkAssumption`,
`ReceiverAssumption`, `DatabaseAssumption`, `TransmissionAssumption`,
`NullAssumption`, `ClientAssumption`) only say what kind of values the
constants have, and that the console client's packets fit its buffer.

* **SocketCycleProofs.** The inductive invariant is the five invariants
  together; none is inductive alone. A socket is in one place (OnePlace, which does
  not count sessions that gave theirs back and still name it) because
  one worker at a time renews AcceptEx (AcceptSingle), and a worker that keeps or
  returns a socket may do so because the kernel's view of it differs from that of
  one in the pool (EndpointsAgree). CycleImplementsPool maps each
  step to a change of role or a stutter.
* **FrameworkProofs.** `FrameworkTyping` is TypeOK strengthened by what
  StoreUsers needs. For the locks, every action is first
  reduced to its footprint (LockStep): a worker enters a session, leaves it, or
  abstains. SessionMutex and ReleasedByOwner then follow from three cases
  instead of forty actions; that a lock which leaked is never cleared is part of
  them. `FrameworkAcceptSingle` needs to know where a completion of AcceptEx can
  be: OneCompletion says that there is at most one, in the port or with one
  worker, and that `connectWorker` is then "done" or being renewed.
* **OwnershipProofs.** OneOwner is not inductive: it does not see that the socket
  AcceptEx is about to be renewed on belongs to no one. Spare adds that a socket
  is fresh only until AcceptEx takes it, so that a fresh one has no owner. The
  rest is who may take a socket over: OneCompletion says that the worker in
  Update is alone there. AcceptsOn is inductive by itself; that UpdateAccept leaves
  the acceptor idle only if AcceptEx refused the socket is what carries it. Most
  steps share one footprint (LetsGo, GoesOn): the acceptor is left alone, and
  sockets are let go of at most.
  NoneForgotten needs three invariants more. Placed: a worker is at another
  session than session 0 only while it accepts, for every completion names
  session 0. Greeted: what the acceptor and the workers have, and what the
  other sessions have, is connected, so only session 0 can lose its connection.
  Remembered: if it has, a completion of a disconnection waits or a worker is on its
  way to Cleanup. NoFault adds that where nothing fails no completion does. That
  no other session loses its socket's connection is where OneOwner is needed: a
  handler that disconnects the socket of session 0 disconnects no other's. Most
  steps share a second footprint here (Follows).
* **OneConnectionProofs.** Three invariants follow the one connection along its
  path, and each shows that whoever has it at a point has it alone.
  *Single* is about its receive: from the completion of AcceptEx through
  AcceptPlayer to BeginRecv, to the kernel, to the port, through Swallow to its
  renewal; it is in one of these at a time, or lost. OneReceive, which sees only
  receives that are outstanding or completed, follows.
  *Life* is about its count: OneEnd says that the disconnection is ahead, among
  the completions or with one worker, once in all; Phase that the connection is
  arriving, about to be counted, counted, or that the program ended. So it is not
  refused, which would give its socket back a first time.
  *PoolLife* is about its socket: as long as it may still be given back (ToGive), it
  is neither in the pool nor accepted on, nor is the one Update just loaded.
  CS_DISPOSE pushes NULL, having cleaned up first, and this is what makes a later
  ProceedDispose harmless. GivenBackOnce follows.
  The handlers that do not touch what an invariant speaks of share a footprint
  each (Quiet, Calm, Apart, PoolKept).
* **ReceiverProofs.** Window is not inductive: the first receive of a connection
  uses the WSABUF as the last connection left it, whose offset Cleanup does not
  reset. It stays in the buffer because Cleanup zeroes the length, which the
  invariant adds (`myState = "NONE" => len = 0`). Reassembles rests on two more:
  Unbroken, that what is on the way is the rest of packets in their order, each
  byte followed by the next of its packet or the first of the next; and
  InStep, that while receives are regular nothing is left in the buffer between
  two of them and what is on the way begins with the packet after the last one
  returned. That nothing was written behind myLastPacket rides along: the header
  read is then that of a packet sent, and so its size fits.
* **DatabaseProofs.** Numbered states InOrder position by position, so that a step
  is arithmetic on indices; NumberedInOrder turns it back into the
  concatenation. PopsQueued is inductive because only the database thread pops.
* **TransmissionProofs.** OneHolder needs the types, and the types need it: a
  completion's bytes do not exceed what its context still has only because no
  one else can change that meanwhile. BytesRight says how far the bytes that
  went out and the WSABUF agree, according to where the context is; with it
  every step maps to a step of Delivery or a stutter (Implements). Whole follows
  from Ordered, which says of one connection that what went out, then what the
  kernel has, are in the order they were made.
* **TestClientProofs.** NothingLost is inductive only with Structure (what
  `sent` is: the packets one after the other), OnTheWay (what is on the way is
  its end) and Armed (a receive puts its bytes where the buffer's contents end).
  NeverFull follows: a full buffer would hold a whole packet, for every packet
  fits, and OnReceive would have taken it. KeepsUp needs Calm, that at most the
  packet a receive completes is whole.

Model-checked only: the liveness properties (NextAcceptArmed, WorkersComeBack,
ResetCleansUp, EveryQueryFreed, EverySendEnds, AllHandled), which are beyond the
prover, and CountsBalance: with several connections its invariant has to balance the
sessions ever connected against the disconnections on their way, the decrements still
due and the stores still to come, which are cardinalities over three domains and a
queue. Every other invariant and action property of a passing run is a theorem. The
properties of the violation runs are false, so there is nothing to prove. SocketUnderLock is proved from the locks' invariant.

## 6. Plan

In order of importance; all but the last two are done.

1. ConnectService, SocketPool, SocketCycle: the acceptor and its refinement.
2. Framework: handlers against sessions, and the composition with the acceptor.
3. Their proofs.
4. Receiver and its proofs, Reassembles among them.
5. DatabaseService and its proofs.
6. Delivery, Transmission: sending, its refinement and its proofs.
7. TestClient and its proofs.
8. OneConnectionProofs: one connection is received from by one receive, and its
   socket given back once, along its path through the handlers.
9. OwnershipProofs: every socket has one owner, accepting goes on, and no
   connection that ended is forgotten.
10. A proof of CountsBalance for any number of connections (section 5).
11. When the Unity client leaves FirstRetrying, or the server's Update ends, in a
   later version of the code: modules for both, which would show nothing today.

## 7. Not modelled, and why

* **Start and stop.** `main` calls Awake, Start and Update in one thread. Update
  waits for the latch that workers arrive at when they are told to stop, and only
  the destructor tells them, which runs after Update (Framework.cpp:50, 84, 127).
  So the server never leaves Update, in every execution: no interleaving is worth
  a model.
* **Unity client.** NetConnector.Start leaves the state at FirstRetrying once
  connected, and FirstConnect waits as long as it is (NetManager.cs:248); BeginReceive
  is never reached, so the callback and the buffer never run. A model of them
  would have states the program is not in. The console client has a receive path
  of the same design, which is TestClient.
* **Rooms, game objects**: declared, without behaviour. The requests for them are
  empty cases of ProceedRecv, which Framework has as one kind of packet.
* **Vendored headers** (curl, zlib, the Azure SDK under
  `src/Server/Server/include`) are nearly 90 % of the lines of the repository; the
  server calls none of their functions at run time. The server's own code is
  some 5 300 lines, the clients and their tests 1 400.
* Never called: ConnectPlayer, prepared statements by tag (PushJobByTag), SendTo
  (every packet goes through BeginSend), `try_lock`.
* Without state that a property could be about: the connection to the
  database, logging, numeric templates, SQL scripts, the Unity scenes, and the
  layout of packets beyond their header.
