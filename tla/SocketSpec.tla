----------------------------- MODULE SocketSpec -----------------------------
(***************************************************************************)
(* A program that opens a TCPSpongeSocket, copies its standard input and   *)
(* output over it, and closes or destroys it (apps/tcp_udp.cc); the        *)
(* TCPConnection thread; and at the other end of an ordered network a peer *)
(* that runs a TCPConnection of its own, and may reset the connection or   *)
(* vanish.                                                                 *)
(***************************************************************************)
EXTENDS SpongeSocket

CONSTANTS Input, Reply,         \* what is typed, and what the peer sends
          PeerISN, TickMs,
          Scenarios,            \* who opens, when the peer ends, how the input ends
          Faults                \* bound: at most one of these happens

ASSUME SocketSpecAssumption ==
    /\ Input \in OutStreams /\ Reply \in OutStreams /\ PeerISN \in WrappingInt32
    \* no number of a segment that was kept back comes round again
    /\ Len(Input) + Capacity < Mod32 /\ Len(Reply) + Capacity < Mod32 /\ MaxU16 < Mod64
    /\ TickMs \in Nat \ {0} /\ Faults \subseteq {"reset", "vanish", "destroy", "stray"}
    \* an eager peer ends its stream when it has sent it, another one when we have ended ours
    /\ Scenarios \subseteq [opens : {"connect", "listen"}, eager : BOOLEAN, end : {"eof", "hup"}]

Hosts == {"local", "peer", "stranger", "nobody"}

VARIABLES sock, pair, wire, fate,
          owner,     \* where the owner's thread is
          app,       \* bidirectional_stream_copy
          peer,      \* [tcp, taken, gone, told]
          scenario,
          fault      \* what has gone wrong, or "none"
vars == << sock, pair, wire, fate, owner, app, peer, scenario, fault >>

Init ==
    /\ sock = new_socket(new_FdAdapter("local", "nobody", FALSE))
    /\ pair = socket_pair
    /\ wire = [rx |-> << >>, tx |-> << >>]
    /\ fate = "alive" /\ owner = "none"
    /\ app = new_app(Input)
    /\ peer = [tcp |-> new_TCPConnection(Len(Reply), Capacity, RetxTimeout, PeerISN),
               taken |-> << >>, gone |-> FALSE, told |-> FALSE]
    /\ scenario \in Scenarios /\ fault = "none"

alive == fate = "alive"
Happens(f) == fault = "none" /\ f \in Faults /\ fault' = f
world == [sock |-> sock, pair |-> pair, wire |-> wire, fate |-> fate]

-----------------------------------------------------------------------------
(* The TCPConnection thread; connect and listen_and_accept run the same    *)
(* loop in the owner's.                                                    *)

looping == alive /\ sock.phase \in {"connect", "listen", "main"}
ThreadBecomes(w) ==
    /\ sock' = w.sock /\ pair' = w.pair /\ wire' = w.wire /\ fate' = w.fate
    /\ owner' = IF owner = "opening" /\ w.sock.phase = "main" THEN "copying" ELSE owner
    /\ UNCHANGED << app, peer, scenario, fault >>

\* No datagram is on its way.  Only then does time pass: the network and the programs are
\* faster than the timers.
quiet == wire.rx = << >> /\ wire.tx = << >>

TcpLoop == INSTANCE WaitNextEvent
    WITH over <- socket_over, interest <- socket_interest, callback <- socket_callback,
         cancel <- socket_cancel, ready <- socket_ready, hup <- socket_hup

waiting == TcpLoop!set_up(world, sock.loop)
polled(set) == TcpLoop!polled_loop(set)
at_top == looping /\ reported(sock.loop) = {}

\* The next of the poll's results; after the last of them the turn is over.
end_of_turn(w) == IF reported(w.sock.loop) = {} THEN after_turn(w, FALSE, 0) ELSE w
serviced(w, done) ==
    LET r == this_rule(w.sock.loop)
        busy == r \in w.sock.loop.ready /\ TcpLoop!busy_wait(done.w, r, serves(w, r))
    IN  [done.w EXCEPT !.sock.loop = done.loop, !.fate = IF busy THEN "threw" ELSE @]
serve(w) == end_of_turn(serviced(w, TcpLoop!service(w, w.sock.loop)))

\* Rules 1 and 4 touch nothing the owner sees: they are run with the step before them.
run_one_private(w) ==
    IF w.fate = "alive" /\ reported(w.sock.loop) # {} /\ this_rule(w.sock.loop) \in {1, 4}
    THEN serve(w) ELSE w
run_private(w) == run_one_private(run_one_private(w))

\* Nothing to poll: Result::Exit.
LoopExit ==
    /\ at_top
    /\ \E set \in {waiting} :
          /\ set.polled = {}
          /\ ThreadBecomes(after_turn([set.w EXCEPT !.sock.loop.rules = set.rules], TRUE, 0))

\* poll returns with something to do.
LoopPoll ==
    /\ at_top
    /\ \E set \in {waiting} : \E loop \in {polled(set)} :
          /\ reported(loop) # {}
          /\ ThreadBecomes(run_private([set.w EXCEPT !.sock.loop = loop]))

\* poll returns with nothing to do: a timeout, or a hangup nobody polls for.
wakes_up(set) == quiet \/ sock.abort \/ TcpLoop!poll_returns(set)
idle_turn(set) ==
    after_turn([set.w EXCEPT !.sock.loop = polled(set)], FALSE, IF quiet THEN TickMs ELSE 0)
LoopIdle ==
    /\ at_top
    /\ \E set \in {waiting} :
          /\ set.polled # {} /\ reported(polled(set)) = {} /\ wakes_up(set)
          /\ ThreadBecomes(idle_turn(set))

LoopService ==
    /\ looping /\ reported(sock.loop) # {}
    /\ ThreadBecomes(run_private(serve(world)))

\* The end of _tcp_main; whatever _tcp.reset() queues goes with the connection.
LoopLeave ==
    /\ alive /\ sock.phase = "leaving"
    /\ pair' = shutdown_rdwr(pair)
    /\ sock' = [sock EXCEPT !.phase = "ended", !.tcp = destruct(@)]
    /\ UNCHANGED << wire, fate, owner, app, peer, scenario, fault >>

Thread == LoopExit \/ LoopPoll \/ LoopIdle \/ LoopService \/ LoopLeave

-----------------------------------------------------------------------------
(* The owner: main of tcp_udp.cc *)

Connect ==
    /\ owner = "none" /\ scenario.opens = "connect" /\ owner' = "opening"
    /\ sock' = start_connect(sock, "peer")
    /\ fate' = IF tcp_state(sock'.tcp) = State.SYN_SENT THEN fate ELSE "threw"
    /\ UNCHANGED << pair, wire, app, peer, scenario, fault >>

ListenAndAccept ==
    /\ owner = "none" /\ scenario.opens = "listen" /\ owner' = "opening"
    /\ sock' = start_listen(sock)
    /\ UNCHANGED << pair, wire, fate, app, peer, scenario, fault >>

copying == alive /\ owner = "copying"
copy_world(room) == [app |-> app, pair |-> pair, fate |-> fate, room |-> room]
CopyLoop == INSTANCE WaitNextEvent
    WITH over <- copy_over, interest <- copy_interest, callback <- copy_callback,
         cancel <- copy_cancel, ready <- copy_ready, hup <- copy_hup
copy_waiting(room) == CopyLoop!set_up(copy_world(room), app.loop)
copy_polled(set) == CopyLoop!polled_loop(set)
CopyBecomes(w) ==
    /\ app' = w.app /\ pair' = w.pair /\ fate' = w.fate
    /\ UNCHANGED << sock, wire, owner, peer, scenario, fault >>

copy_serviced(done) == [done.w EXCEPT !.app.loop = done.loop]
copy_serve(w) == copy_serviced(CopyLoop!service(w, w.app.loop))
\* Rules 1 and 4 touch nothing the thread sees.
copy_one_private(w) ==
    IF reported(w.app.loop) # {} /\ this_rule(w.app.loop) \in {1, 4} THEN copy_serve(w) ELSE w
copy_private(w) == copy_one_private(copy_one_private(w))

CopyPoll ==
    /\ copying /\ reported(app.loop) = {}
    /\ \E room \in 1 .. CopyBuffer :
       \E set \in {copy_waiting(room)} : \E loop \in {copy_polled(set)} :
          /\ reported(loop) # {}
          /\ CopyBecomes(copy_private([set.w EXCEPT !.app.loop = loop]))

CopyService ==
    /\ copying /\ reported(app.loop) # {}
    /\ \E room \in 1 .. CopyBuffer : CopyBecomes(copy_private(copy_serve(copy_world(room))))

\* The copy is over: wait_until_closed.
WaitUntilClosed ==
    /\ copying /\ reported(app.loop) = {}
    /\ \E set \in {copy_waiting(1)} :
          /\ set.polled = {}
          /\ app' = [set.w.app EXCEPT !.loop.rules = set.rules]
    /\ pair' = shutdown_rdwr(pair) /\ owner' = "joining"
    /\ UNCHANGED << sock, wire, fate, peer, scenario, fault >>

\* The destructor, while the thread can still be joined.
Destroy ==
    /\ copying /\ reported(app.loop) = {} /\ Happens("destroy")
    /\ sock' = [sock EXCEPT !.abort = TRUE] /\ owner' = "joining"
    /\ UNCHANGED << pair, wire, fate, app, peer, scenario >>

Join ==
    /\ alive /\ owner = "joining" /\ sock.phase = "ended"
    /\ owner' = "done"
    /\ UNCHANGED << sock, pair, wire, fate, app, peer, scenario, fault >>

Owner == Connect \/ ListenAndAccept \/ CopyPoll \/ CopyService \/ WaitUntilClosed \/ Join

-----------------------------------------------------------------------------
(* The user, the peer and the network *)

\* What they do is seen by the next poll, not by the callbacks of the one before: it is
\* enough to let them act while the loop concerned is not in the middle of its results.
between_polls == alive /\ reported(sock.loop) = {}
EnvironmentChanges == UNCHANGED << sock, pair, fate, owner, scenario >>

\* A piece of the input is typed, while the copy is going on.
Type ==
    /\ copying /\ reported(app.loop) = {} /\ app.stdin_end = "open"
    /\ \E n \in 1 .. Len(app.coming) :
          app' = [app EXCEPT !.stdin = @ \o SubSeq(app.coming, 1, n),
                             !.coming = SubSeq(@, n + 1, Len(@))]
    /\ EnvironmentChanges /\ UNCHANGED << wire, peer, fault >>

CloseInput ==
    /\ copying /\ reported(app.loop) = {} /\ app.coming = << >> /\ app.stdin_end = "open"
    /\ app' = [app EXCEPT !.stdin_end = scenario.end]
    /\ EnvironmentChanges /\ UNCHANGED << wire, peer, fault >>

from_peer(segs) == [i \in 1 .. Len(segs) |-> [source |-> "peer", seg |-> segs[i]]]
peer_opened(c) == c.isactive /\ has_ackno(c.receiver) /\ c.sender.last_ackno > 0

\* The peer's program reads everything, sends its stream once, and ends it.
peer_reads(c) == [c EXCEPT !.receiver.reassembler.output = pop_output(@, buffer_size(@))]
peer_writes(c) ==
    IF peer_opened(c) /\ bytes_written(c.sender.stream) = 0 THEN write(c, Reply) ELSE c
peer_ends(c) ==
    IF /\ peer_opened(c) /\ ~input_ended(c.sender.stream)
       /\ scenario.eager \/ input_ended(inbound_stream(c))
    THEN end_input_stream(c) ELSE c

PeerReceive ==
    /\ between_polls /\ wire.tx # << >>
    /\ \E seg \in {Head(wire.tx)} : \E heard_it \in {segment_received(peer.tcp, seg)} :
       \E after \in {IF peer.gone THEN peer.tcp ELSE peer_ends(peer_writes(peer_reads(heard_it)))} :
          /\ peer' = [peer EXCEPT !.tcp = [after EXCEPT !.segments_out = << >>],
                                  !.taken = IF peer.gone THEN @ ELSE @ \o inbound_stream(heard_it).buff,
                                  !.told = @ \/ seg.rst]
          /\ wire' = [rx |-> wire.rx \o from_peer(after.segments_out), tx |-> Tail(wire.tx)]
    /\ EnvironmentChanges /\ UNCHANGED << app, fault >>

PeerConnect ==
    /\ between_polls /\ sock.phase = "listen" /\ ~peer.gone /\ peer.tcp.sender.next_seqno = 0
    /\ \E after \in {connect(peer.tcp)} :
          /\ peer' = [peer EXCEPT !.tcp = [after EXCEPT !.segments_out = << >>]]
          /\ wire' = [wire EXCEPT !.rx = @ \o from_peer(after.segments_out)]
    /\ EnvironmentChanges /\ UNCHANGED << app, fault >>

RST == [new_TCPSegment EXCEPT !.rst = TRUE]

PeerReset ==
    /\ between_polls /\ peer_opened(peer.tcp) /\ Happens("reset")
    /\ peer' = [peer EXCEPT !.tcp = unclean_shutdown(@)]
    /\ wire' = [wire EXCEPT !.rx = @ \o from_peer(<< RST >>)]
    /\ EnvironmentChanges /\ UNCHANGED app

\* It makes a difference when there is something the peer would have heard.
PeerVanish ==
    /\ between_polls /\ wire.tx # << >> /\ Happens("vanish")
    /\ peer' = [peer EXCEPT !.gone = TRUE]
    /\ EnvironmentChanges /\ UNCHANGED << app, wire >>

\* A datagram of somebody else, the one that would do most if it were listened to.
\* Bound: it comes when nothing else is about to be read.
Stray ==
    /\ between_polls /\ looping /\ wire.rx = << >> /\ Happens("stray")
    /\ wire' = [wire EXCEPT !.rx = << [source |-> "stranger", seg |-> RST] >>]
    /\ EnvironmentChanges /\ UNCHANGED << app, peer >>

Peer == PeerReceive \/ PeerConnect
User == Type \/ CloseInput
Fault == Destroy \/ PeerReset \/ PeerVanish \/ Stray

finished == owner = "done" \/ ~alive
Terminated == finished /\ UNCHANGED vars

Next == Thread \/ Owner \/ User \/ Peer \/ Fault \/ Terminated

Spec == Init /\ [][Next]_vars

\* When each of them has a step that changes something; a thread that only spins has not.
thread_can ==
    LET set == waiting
    IN  \/ alive /\ sock.phase = "leaving"
        \/ looping /\ reported(sock.loop) # {}
        \/ at_top /\ (set.polled = {} \/ reported(polled(set)) # {})
        \/ at_top /\ wakes_up(set) /\ idle_turn(set) # world
owner_can ==
    LET set == copy_waiting(1)
    IN  \/ owner = "none"
        \/ copying /\ (reported(app.loop) # {} \/ set.polled = {} \/ reported(copy_polled(set)) # {})
        \/ alive /\ owner = "joining" /\ sock.phase = "ended"
peer_can ==
    /\ between_polls
    /\ \/ wire.tx # << >>
       \/ sock.phase = "listen" /\ ~peer.gone /\ peer.tcp.sender.next_seqno = 0

\* Weak fairness: the scheduler runs both threads, the network delivers and the peer answers,
\* and whoever types ends the input some day.  A thread's step is told by the state that only
\* it changes, but for a step or two of others (to start, to abort, to type), and the peer's by
\* what it takes from the wire; TLC could not evaluate ENABLED of the steps of a TCPConnection.
FairSpec ==
    /\ Spec
    /\ []<>~thread_can \/ []<><<sock' # sock>>_vars
    /\ []<>~owner_can \/ []<><<app' # app \/ owner' # owner>>_vars
    /\ []<>~peer_can \/ []<><<Len(wire'.tx) < Len(wire.tx)>>_vars
    /\ WF_vars(User)

-----------------------------------------------------------------------------
\* Every variable has its type.
TypeOK ==
    /\ sock \in SocketType(Byte, Hosts) /\ pair \in PairType(Byte) /\ app \in AppType(Byte)
    /\ wire.rx \in Seq([source : Hosts, seg : SegmentType(Byte)])
    /\ wire.tx \in Seq(SegmentType(Byte))
    /\ peer \in [tcp : ConnectionType(Byte), taken : Seq(Byte), gone : BOOLEAN, told : BOOLEAN]
    /\ fate \in {"alive", "threw", "sigpipe"}
    /\ owner \in {"none", "opening", "copying", "joining", "done"}
    /\ scenario \in Scenarios /\ fault \in Faults \cup {"none"}

in_tcp == inbound_stream(sock.tcp)
up_to(s, n) == SubSeq(s, 1, n)

\* On the way through four buffers, two loops and two threads no byte is duplicated or moved,
\* through partial reads and writes, shutdowns and resets, while the process lives: what is in
\* the buffers of a direction is what has entered it.  None is lost either, but for the input
\* that is read once the thread has ended and a hangup has cancelled the rule that writes to
\* the socket; it is the end of the input that is missing then, never a part of the middle.
\* (What is in the pair of sockets or behind it then is stranded: see NothingStranded.)
NothingLost ==
    alive =>
        /\ app.printed \o app.inbound.buff \o pair.down.data \o in_tcp.buff
              = up_to(Reply, bytes_written(in_tcp))
        /\ up_to(Input, bytes_written(sock.tcp.sender.stream)) \o pair.up.data
              \o app.outbound.buff \o app.dropped \o app.stdin \o app.coming = Input
        /\ app.dropped # << >> => sock.phase = "ended" /\ 2 \notin app.loop.rules
        /\ peer.taken = up_to(Input, Len(peer.taken))

\* bidirectional_stream_copy.cc:28: rule 1 is to "read from stdin into outbound byte stream",
\* so what has been read of standard input has entered that stream.
NothingDropped == app.dropped = << >>

\* A connection sees the end of a stream only behind all of it, the one that is to send the
\* owner's input, the peer's that receives it, and the owner's that receives the reply, whatever
\* goes wrong: a reset, a hangup of the pair of sockets, a destroyed socket or a peer that
\* vanishes is not taken for the end of what was to come.
EndsAreWhole ==
    /\ input_ended(sock.tcp.sender.stream) => bytes_written(sock.tcp.sender.stream) = Len(Input)
    /\ input_ended(inbound_stream(peer.tcp)) => peer.taken \o inbound_stream(peer.tcp).buff = Input
    /\ input_ended(in_tcp)
          => app.printed \o app.inbound.buff \o pair.down.data \o in_tcp.buff = Reply

\* Without a fault of the peer or of the owner nothing throws and nobody writes to a socket
\* that is shut, in whatever order the two loops see things end, strays or not.
undisturbed == fault \in {"none", "stray"}
NoFaultNoFailure == undisturbed => alive

\* The copy comes to its end with nothing of the reply left between the connection and
\* standard output, whatever happened to the connection; and without a fault nothing of the
\* input is left in front of the pair of sockets either, nor in it once the thread has ended.
NothingStranded ==
    owner \in {"joining", "done"} /\ ~sock.abort =>
        /\ pair.down.data = << >> /\ app.inbound.buff = << >>
        /\ undisturbed => /\ app.outbound.buff \o app.stdin \o app.coming = << >>
                          /\ sock.phase = "ended" => pair.up.data = << >>

\* Without a fault, the end of file the owner sees is the end of the peer's stream, and when
\* the thread leaves its loop the peer has everything and both streams have ended.
EndIsTheEnd ==
    undisturbed =>
        /\ app.socket_eof => app.printed \o app.inbound.buff = Reply
        /\ sock.phase \in {"leaving", "ended"} =>
              /\ peer.taken = Input /\ input_ended(inbound_stream(peer.tcp))
              /\ input_ended(in_tcp) /\ bytes_written(in_tcp) = Len(Reply)

\* A connection that gives up on a peer that does not answer tells it so: before the thread
\* ends a RST has been sent.
GivesUpLoudly ==
    peer.gone /\ ~sock.abort /\ sock.phase = "ended" /\ in_tcp.error
        => peer.told \/ \E i \in 1 .. Len(wire.tx) : wire.tx[i].rst

\* wait_until_closed and the destructor return: both threads come to an end, after a reset and
\* after _abort too, unless a signal or an exception ends the process first.  A peer that
\* vanishes is given up as long as anything is unacknowledged and its window was open; with
\* nothing outstanding it is waited for, as the note at tcp_sponge_socket.hh:63 says, and with
\* a window of zero it is probed for ever, since a probe is not counted (tcp_sender.cc:136).
waits_for_nobody ==
    peer.gone /\ (sock.tcp.sender.outstanding_seg = << >> \/ sock.tcp.sender.last_win = 0)
Finishes == <>[](finished \/ waits_for_nobody)

\* tcp_sponge_socket.cc:101: that write() accepts less than remaining_outbound_capacity() is an
\* error nobody expects; it ends the thread and with it the process.
NeverThrows == fate # "threw"

=============================================================================
