------------------------------ MODULE MCSocket ------------------------------
(* InputLen distinct bytes one way, ReplyLen the other; every pair of choices *)
(* occurs in one of the four scenarios.                                      *)
EXTENDS SocketSpec
CONSTANTS InputLen, ReplyLen
MCByte == 1 .. (InputLen + ReplyLen)
MCInput == [i \in 1 .. InputLen |-> i]
MCReply == [i \in 1 .. ReplyLen |-> InputLen + i]
MCScenarios == {[opens |-> "connect", eager |-> TRUE, end |-> "hup"],
                [opens |-> "connect", eager |-> FALSE, end |-> "eof"],
                [opens |-> "listen", eager |-> TRUE, end |-> "eof"],
                [opens |-> "listen", eager |-> FALSE, end |-> "hup"]}
=============================================================================
