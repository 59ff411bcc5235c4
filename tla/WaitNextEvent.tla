--------------------------- MODULE WaitNextEvent ---------------------------
(***************************************************************************)
(* EventLoop::wait_next_event, for a loop whose rules act on a world w.     *)
(***************************************************************************)
EXTENDS EventLoop

CONSTANTS over(_, _),        \* the rule's descriptor is at its end, or closed
          interest(_, _), callback(_, _), cancel(_, _),
          ready(_, _),       \* what poll(2) says of it: POLLIN or POLLOUT, as the rule asks,
          hup(_, _)          \* and POLLHUP

\* The first loop: a rule that is over is cancelled, one that is interested is polled.
\* Both loops of the program have four rules.
look_at(acc, r) ==
    IF r \notin acc.rules THEN acc
    ELSE IF over(acc.w, r) THEN [acc EXCEPT !.w = cancel(@, r), !.rules = @ \ {r}]
    ELSE IF interest(acc.w, r) THEN [acc EXCEPT !.polled = @ \cup {r}] ELSE acc
set_up(w, loop) ==
    look_at(look_at(look_at(look_at([w |-> w, rules |-> loop.rules, polled |-> {}],
                                    1), 2), 3), 4)

\* Mutant: a hangup comes before what there is to read.
polled_loop_hangup_first(set) ==
    [rules |-> set.rules, ready |-> {r \in set.polled : ready(set.w, r) /\ ~hup(set.w, r)},
     hangups |-> {r \in set.polled : hup(set.w, r)}]

\* poll(2) as it answers for the rules that were set up.  A hangup is reported for every
\* rule, polled or not, and makes it return; only a polled one is acted upon.
polled_loop(set) ==
    [rules |-> set.rules, ready |-> {r \in set.polled : ready(set.w, r)},
     hangups |-> {r \in set.polled : hup(set.w, r) /\ ~ready(set.w, r)}]
poll_returns(set) ==
    (\E r \in set.polled : ready(set.w, r)) \/ (\E r \in set.rules : hup(set.w, r))

\* One turn of the second loop: the rule is cancelled, or its callback is called, without
\* asking again whether it is interested.
service(w, loop) ==
    LET r == this_rule(loop)
    IN  IF r \in loop.hangups
        THEN [w |-> cancel(w, r),
              loop |-> [loop EXCEPT !.rules = @ \ {r}, !.hangups = @ \ {r}]]
        ELSE [w |-> callback(w, r), loop |-> [loop EXCEPT !.ready = @ \ {r}]]

\* The test for a busy wait, after the callback: served says if it read or wrote its descriptor.
busy_wait(w, r, served) == ~served /\ interest(w, r)

=============================================================================
