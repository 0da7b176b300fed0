------------------------------ MODULE SocketPool ------------------------------
(***************************************************************************)
(* What the acceptor promises about sockets, without queues or threads: a  *)
(* socket is free, is the one being accepted on, or is out with a          *)
(* connection, and it goes round in that order.  At most one is being      *)
(* accepted on.                                                            *)
(***************************************************************************)
CONSTANT Sockets

VARIABLE role

Roles == {"free", "newbie", "out"}

RoleTypeOK == role \in [Sockets -> Roles]

SetRole(s, from, to) ==
  /\ role[s] = from
  /\ role' = [role EXCEPT ![s] = to]

NoNewbie == \A s \in Sockets : role[s] # "newbie"

PoolInit ==
  /\ RoleTypeOK
  /\ \A s \in Sockets : role[s] # "out"
  /\ \A s, t \in Sockets : role[s] = "newbie" /\ role[t] = "newbie" => s = t

Listen(s)   == NoNewbie /\ SetRole(s, "free", "newbie")
HandOut(s)  == SetRole(s, "newbie", "out")
GiveBack(s) == SetRole(s, "out", "free")

PoolNext == \E s \in Sockets : Listen(s) \/ HandOut(s) \/ GiveBack(s)

PoolSpec == PoolInit /\ [][PoolNext]_role
===============================================================================
