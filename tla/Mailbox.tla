------------------------------ MODULE Mailbox ------------------------------
(***************************************************************************)
(* What ml::Worker promises the threads that post messages to it: a        *)
(* message it accepts is handled exactly once, and messages are handled    *)
(* one after the other in the order they were accepted.  Nothing is said   *)
(* of threads, locks, timers or restarts; those belong to Worker, which    *)
(* implements this specification.                                          *)
(***************************************************************************)
EXTENDS Sequences

CONSTANT Messages

VARIABLES
  accepted,   \* messages taken in and not handled yet, oldest first
  handled     \* messages handled, in the order of their handling

vars == <<accepted, handled>>

Init ==
  /\ accepted = <<>>
  /\ handled = <<>>

Accept(m) ==
  /\ accepted' = Append(accepted, m)
  /\ UNCHANGED handled

Handle ==
  /\ accepted # <<>>
  /\ handled' = Append(handled, Head(accepted))
  /\ accepted' = Tail(accepted)

Next == Handle \/ \E m \in Messages : Accept(m)

Spec == Init /\ [][Next]_vars
=============================================================================
