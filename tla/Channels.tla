------------------------------ MODULE Channels ------------------------------
(***************************************************************************)
(* What the readers of ml::SlidingWindow objects are promised, window by   *)
(* window: data comes out in the order it went in, each item once, and a   *)
(* read of an empty window returns nothing.  How much history a window     *)
(* keeps does not show.                                                    *)
(***************************************************************************)
EXTENDS Sequences

CONSTANTS Names, Data, Nothing

VARIABLES
  unread,   \* for each window: data added and not read yet, oldest first
  got       \* for each window: what the last read returned

vars == <<unread, got>>

Init ==
  /\ unread = [n \in Names |-> <<>>]
  /\ got = [n \in Names |-> Nothing]

Put(n, x) ==
  /\ unread' = [unread EXCEPT ![n] = Append(@, x)]
  /\ UNCHANGED got

Get(n) ==
  /\ unread[n] # <<>>
  /\ got' = [got EXCEPT ![n] = Head(unread[n])]
  /\ unread' = [unread EXCEPT ![n] = Tail(@)]

GetNothing(n) ==
  /\ unread[n] = <<>>
  /\ got' = [got EXCEPT ![n] = Nothing]
  /\ UNCHANGED unread

Next == \E n \in Names : Get(n) \/ GetNothing(n) \/ \E x \in Data : Put(n, x)

Spec == Init /\ [][Next]_vars
=============================================================================
