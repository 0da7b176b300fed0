-------------------------------- MODULE Delivery --------------------------------
(***************************************************************************)
(* What the server promises of a packet it sends, wherever its bytes go:   *)
(* they go out in order, none twice and none left out, until all have or   *)
(* the sending fails; and only then is the packet done.                    *)
(***************************************************************************)
EXTENDS Integers, Sequences

CONSTANTS Packets, Lengths

VARIABLES length, passed, status

vars == <<length, passed, status>>

(* The first n bytes of a packet, in order.                                *)
First(n) == [i \in 1..n |-> i - 1]

Init ==
  /\ length = [k \in Packets |-> 0]
  /\ passed = [k \in Packets |-> <<>>]
  /\ status = [k \in Packets |-> "unsent"]

(* The packet is given to the network, or refused.                         *)
Start(k, n) ==
  /\ status[k] = "unsent"
  /\ \E s \in {"sending", "lost"} : status' = [status EXCEPT ![k] = s]
  /\ length' = [length EXCEPT ![k] = n]
  /\ UNCHANGED passed

(* More of its bytes go out: those that are next, up to n.                *)
Pass(k, n) ==
  /\ status[k] = "sending"
  /\ Len(passed[k]) < n
  /\ passed' = [passed EXCEPT ![k] = First(n)]
  /\ UNCHANGED <<length, status>>

Finish(k) ==
  /\ status[k] = "sending"
  /\ passed[k] = First(length[k])
  /\ status' = [status EXCEPT ![k] = "done"]
  /\ UNCHANGED <<length, passed>>

Lose(k) ==
  /\ status[k] = "sending"
  /\ status' = [status EXCEPT ![k] = "lost"]
  /\ UNCHANGED <<length, passed>>

Next ==
  \E k \in Packets :
    \/ \E n \in Lengths : Start(k, n)
    \/ \E n \in 1..length[k] : Pass(k, n)
    \/ Finish(k)
    \/ Lose(k)

Spec == Init /\ [][Next]_vars
===============================================================================
