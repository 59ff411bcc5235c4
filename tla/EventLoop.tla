----------------------------- MODULE EventLoop -----------------------------
(***************************************************************************)
(* libsponge/util/eventloop.{hh,cc}.  A loop is the rules not cancelled,    *)
(* numbered in the order they were added, and what the last poll reported  *)
(* that has not been gone through.                                         *)
(***************************************************************************)
EXTENDS Naturals

new_EventLoop(n) == [rules |-> 1 .. n, ready |-> {}, hangups |-> {}]

EventLoopType(n) ==
    [rules : SUBSET (1 .. n), ready : SUBSET (1 .. n), hangups : SUBSET (1 .. n)]

\* Whether wait_next_event is in the middle of the poll results, and the rule it is at.
reported(loop) == loop.ready \cup loop.hangups
this_rule(loop) == CHOOSE r \in reported(loop) : \A s \in reported(loop) : r <= s

=============================================================================
