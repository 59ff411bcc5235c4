# MyTCP (sponge): a TLA+ verification project

The repository implements TCP in user space: a C++ library (`libsponge`) whose
core is a stack of small classes, a socket class that runs one connection in a
thread of its own over UDP or a TUN device, and a few applications. This
directory models the protocol core, the codecs and adapters below it and the
two-threaded socket above it, checks them with TLC on small instances and proves
the safety of the core and of the socket with TLAPS for every instance. `PROJECT.json` lists the
components, the runs, the mutants that show each property can fail, the source
lines each definition stands for, the hazards, the findings and the theorems.

## Inventory

| Component | State | Operations | What makes it correct |
|---|---|---|---|
| `ByteStream` | deque of bytes, capacity, bytes read and written, end and error flags | write, peek, pop, read, end_input, set_error | bounded, in order |
| `StreamReassembler` | the output `ByteStream`, an ordered set of segments, a byte count, the end index | push_substring | output is a prefix of the stream, segments disjoint and inside the window, memory bound, closed exactly at the end |
| `WrappingInt32` | none | wrap, unwrap | unwrap inverts wrap near the checkpoint |
| `TCPReceiver` | a reassembler, SYN seen, ISN | segment_received, ackno, window_size | each byte lands at its place whatever turn of the ring, ackno and window never move back |
| `TCPSender`, `RetransmissionTimer` | stream, next seqno, last ackno and window, outstanding segments, timer, RTO, retry count | fill_window, ack_received, tick, send_empty_segment | outstanding = in flight, timer runs iff something is outstanding, window used and not exceeded |
| `TCPConnection` | a sender, a receiver, a queue, active and linger flags, time since the last segment | connect, write, end_input_stream, segment_received, tick, destructor | both directions reliable; a clean close loses nothing; somebody lingers; both ends finish |
| `TCPState` | none | summaries of sender and receiver, official states | names the states the socket waits for |
| `TCPSpongeSocket` | connection, socket pair, adapter, flags, `_abort`, a thread | connect, listen_and_accept, wait_until_closed, destructor; four rules, `_tcp_loop`, `_tcp_main` | no byte lost between the buffers; the owner's end of file is the peer's; the thread ends; nothing throws |
| `EventLoop` | list of rules: descriptor, direction, callback, interest, cancel | add_rule, wait_next_event | every ready rule served in order, dead ones cancelled, no busy wait |
| `FileDescriptor`, `Socket` | number, eof, closed, read and write counts | read, write, close, shutdown, recv, sendto | eof only at the end, partial writes reported |
| adapters | addresses, listening flag | read, write, set_listening | only the connection's own segments get in, and all of them |
| headers, datagrams, parser, checksum | fields | parse, serialize | what is parsed is what was serialized; damage is refused |
| `bidirectional_stream_copy` | two streams, two flags, an event loop | four rules | both directions copied to their ends |

How they interact: `TCPConnection` gives every segment to its receiver, and its
ackno and window to its sender; what the sender queues is stamped with the
receiver's ackno and window and queued again for the owner, who drains the
queue into datagrams. Two connections interact only by segments, which the
network loses, duplicates and reorders. `TCPSpongeSocket` is the owner: an event
loop with four rules, in the caller's thread until the connection is open and
in its own afterwards. The application shares with that thread a pair of local
sockets and the flag `_abort`, and usually runs an event loop of its own
(`bidirectional_stream_copy`) on its end of the pair.

What is hard: late and duplicated segments against state that has moved on;
unsigned arithmetic at its edges (2^32, 2^64, zero windows, a window that
shrinks); overlapping segments merged while the set is walked; retransmission,
back-off and giving up racing with answers; who lingers; callbacks that run on what
poll said before another callback changed it; two threads that shut the same pair of
sockets down. The list, with lines,
is under `hazards`.

## Modules

A class is a record and a method is an operator from the object to the object
after the call, so that one method's model is used wherever the code calls it:
`TCPConnection!segment_received` calls the receiver's and the sender's
operators in the order of the code. Specifications put objects into variables.

| Module | Stands for |
|---|---|
| `ByteStream` | byte_stream.{hh,cc} |
| `WrappingIntegers` | wrapping_integers.{hh,cc}; `Half32` is 2^31, and 2^32 and 2^64 are derived from it, so that a small value keeps every wrap-around |
| `StreamReassembler` | stream_reassembler.{hh,cc}; its two loops by what they compute |
| `Bytes`, `InboundStream`, `InboundText`, `OutboundStream` | the values of a byte, what a reassembler and what a sender is made with, and the streams each can be given: constants and what is assumed of them |
| `ReassemblerLoops` | the same code with its loops one turn at a time, compared with the former |
| `IdealReassembler` | the contract: which bytes of the window have been received |
| `TCPSegment`, `TCPReceiver`, `TCPSender`, `TCPState`, `TCPConnection` | the classes of these names |
| `WrappingSpec`, `ReassemblerSpec`, `ReceiverSpec`, `SenderSpec` | one component with its environment: variables, actions, properties |
| `StreamContract` | what TCP promises for one direction |
| `ConnectionPair` | two `TCPConnection`s, their owners and the network |
| `NetParser` | parser.{hh,cc}, `InternetChecksum`, the prefix operations of buffer.cc |
| `TCPCodec`, `IPv4Codec` | tcp_header.cc, tcp_segment.cc; ipv4_header.cc, ipv4_datagram.cc: bytes 0 to 255, a 32-bit number as two halves |
| `FdAdapter` | fd_adapter, tcp_over_ip, tuntap_adapter, lossy_fd_adapter |
| `AdapterSpec` | hosts that send through their adapters, a network that damages, one adapter that reads |
| `EventLoop`, `WaitNextEvent` | eventloop.{hh,cc}: the state of a loop; `wait_next_event` for rules given as constant operators |
| `FileDescriptor` | file_descriptor.cc and `Socket::shutdown` on a socket pair as the kernel provides it |
| `StreamCopy` | apps/bidirectional_stream_copy.cc |
| `SpongeSocket` | tcp_sponge_socket.{hh,cc}: the rules and the steps of `_tcp_loop` |
| `SocketSpec` | main of apps/tcp_udp.cc: the owner's thread, the connection's, the user, the peer |
| `MCParts` | `WrappingSpec`, `ReassemblerLoops`, `ReassemblerSpec`, `ReceiverSpec` and `AdapterSpec` in one run, one moving at a time |
| `MC*` | instances for TLC: streams of distinct bytes, so that a byte out of place shows |
| `InboundLemmas` | lemmas about numbers and rings, `StreamReassembler` and `TCPReceiver` |
| `ConnectionLemmas` | lemmas about `TCPSender` and about the calls of a `TCPConnection` between two ends |
| `WrappingProofs`, `ReassemblerProofs`, `ReceiverProofs`, `SenderProofs`, `PairProofs`, `SocketProofs` | theorems about the specification each extends |

In `ReassemblerSpec` a step is a push of any substring of one stream or a read
of any length. In `ReceiverSpec` it is the arrival of any slice of SYN, stream,
FIN as a segment, or a read. In `SenderSpec` it is a call `TCPConnection` makes,
and the ACKs are those of a peer that acknowledges what it was sent and never
takes back a part of its window, delivered in order or, with `StaleAcks`, again
and late. In `ConnectionPair` it is a call of an owner (connect, write, end,
read), an arrival, a loss, a copy, or a tick of both clocks; after every call
the owner's queue is drained, as rule 4 of the event loop does.

In `AdapterSpec` a step is a segment written by some host's adapter, a byte changed
or the end cut off on the way, or a read by an adapter that starts out listening,
with the lossy wrapper dropping what it likes.

In `SocketSpec` the thread's loop is cut where another thread or the network can
tell: `LoopPoll` sets up the rules, asks each for its interest, and polls;
`LoopService` runs one callback of those the poll reported, in order, without asking
again; after the last one comes what `_tcp_loop` does after `wait_next_event`
(exit, `_abort`, tick, condition). `LoopIdle` is a poll that reports nothing: a
timeout, or a hangup nobody asked about. `LoopExit` is `Result::Exit`, `LoopLeave`
the end of `_tcp_main`. The owner's loop is cut in the same way (`CopyPoll`,
`CopyService`), with `WaitUntilClosed`, `Destroy` and `Join` after it. Rules 1 and 4
of each loop touch nothing the other thread sees (the wire and the connection;
standard input and output), so they run in the step before them: any step of the other
thread between commutes with them. For the same reason user, peer and network
act only between the polls of the loop that would see it: what arrives after a
poll is seen by the next one. An exception in either thread, and SIGPIPE, end the
process (`fate`): `_tcp_main` throws again what it catches.

The codecs go down to bytes, and to the bits of the flags, because what `EndToEnd`, `OnePeer` and
`Delivers` ask is what a changed byte or a cut does to lengths, flags, numbers and checksums
that are parsed with their errors dropped. Left out of the data elsewhere: ports, checksums, urgent and push flags, the receiver's
own `_capacity` (never read), byte values. `size_t` and `uint64_t` counters are
naturals except where the code can make them wrap (`tail_idx`, the receiver's
index, `remaining_win`, `unwrap`), which are taken modulo 2^64.

## Runs

| Run | Question | Bounds |
|---|---|---|
| `parts` | does unwrap invert wrap, and is it closest to the checkpoint? | ring of 16, two turns and into the third: every offset, the first turn, the tie at half the ring |
| | do the reassembler's loops compute what the model says? | indexes to 4, window of 3, two versions of every byte, any end, index 2^64-1 |
| | is the reassembler's output the stream, is the buffer what the contract says, is every byte in the window taken? | 15 bytes, window of 5: three separate segments, segments over both ends of the window, nested and touching ones |
| | does that survive 32-bit seqnos, and are ackno and window never taken back? | ring of 16, 17 numbers from SYN to FIN (more than a turn), window of 5, three ISNs, one just before the wrap |
| | does a segment get through codecs and adapters unchanged or not at all, from one peer only? | four segments (SYN, RST, data, FIN with options), three hosts, one byte changed anywhere to four values, or cut anywhere |
| `receiver_syn_data` (violation) | is nothing missing once the FIN is acknowledged, when SYNs carry data and one comes again with the FIN? | stream of 3, window of 2 |
| `sender` | is the outstanding queue exact, the timer right, the window used and kept? | 3 bytes, windows 0 to 3, payloads of 2, two retransmissions in a row, stale ACKs |
| `sender_wrap` (violation) | the same with seqnos that pass 2^32 | ring of 16, ISN 11 or 15 |
| `sender_stale_window` (violation) | is the window respected when ACKs are late? | windows to 4 |
| `pair_lossy` | reliable streams, clean close, and, under fairness, both ends finishing | a byte each way, windows of 1, any order, one loss |
| `pair_late` | the same when timers fire while segments are on their way and one is copied; giving up and resets | a byte and a FIN in a window of 2, one retry allowed |
| `pair_connect` (violation) | is the connection open when connect() stops waiting? | one loss |
| `socket` | is anything lost, does a stream end early, does anything throw, do the ends agree, is giving up told, do both threads end? | a byte out, two back, every buffer and window of one or two bytes, one retry, one fault, four scenarios |
| `socket_pieces` | does the copy lose anything of an input that comes in pieces, and leave anything behind? | three bytes in, in any pieces; two back; buffers of one and two bytes; standard output takes 1 to `CopyBuffer` bytes of a write; resets |
| `socket_dropped` (violation) | does everything read of standard input enter the copy's stream? | as `socket_pieces` |
| `socket_reset` (violation) | does a reset make the thread throw? | as `socket`, resets only |

Every bound is a CONSTANT or a guard named in its module (`MaxRetx`,
`MaxTimeouts`, `MaxTime`, `MaxDrops`, `MaxDups`, `MaxOverdue`, `MaxWin`, `MaxAbs`,
`MaxIndex`, `MaxCount`). They are enough in the sense that each mutant of the
code listed in `PROJECT.json` is caught within them. In `SocketSpec`: at most one of the
`Faults` happens; the four `Scenarios` are a pairwise cover of who opens, when the peer ends
its stream, and how standard input ends; the input is typed in pieces of any size
(`Type`) and ended once all of it is typed (`CloseInput`); standard output takes any part of a
write, one byte at least when poll reports it ready (`room`); time passes only while nothing is on its way
(`quiet`: programs and network are faster than the timers); a stray datagram comes on
an idle line, and the peer vanishes when something is on its way to it.
`time_since_last_segment_received` stops at `MaxTime`, where lingering is over. The buffers
of one byte are what makes writes partial and both loops wait for each other: with one byte in each the input
of `socket_pieces` is longer than what fits on its way (the channel, the connection's stream) and
still leaves a piece to be typed when the thread has ended. `socket` has an input of one byte, so that liveness
stays within reach; what needs more is asked in `socket_pieces`. `CHECK_DEADLOCK FALSE` is
set for the pair only: a connection is meant to stop.

Fairness (`FairSpec` of `ConnectionPair`): each owner's call that stays possible
is made, a network that always has a segment keeps delivering, and time passes
as long as something waits for it. The event loop justifies it: it polls all
its rules on every turn and calls `tick` after each. The network loses at most
`MaxDrops` segments, fewer in a row than the retries allowed: otherwise giving
up is what the code promises. `can_tick` lets time pass only when at most
`MaxOverdue` segments are on their way; with 0, timeouts are never spurious,
with 1 they are.

`FairSpec` of `SocketSpec`: weak fairness of the two threads (the scheduler), of the
network and the peer that answers, and of the user, who ends the input some day
(`WF_vars(User)`). The first three are written out: infinitely often the actor has no step
that changes anything (`thread_can`, `owner_can`, `peer_can`), or infinitely often it takes one.
TLC's ENABLED of a step of a whole `TCPConnection` is out of reach. Nothing is assumed of
the faults.

`Finishes` is what that gives: both threads end, after resets, destruction and
strays too. A peer that vanishes is the one exception the code makes: it is given up
when something is unacknowledged, waited for without end when nothing is (the
note at tcp_sponge_socket.hh:63 warns of it), and probed without end when it closed its
window before it went, since a probe does not count as a retransmission.

## Findings

Six places where what the code does differs from what its docs, assertions or tests
say. The runs marked violation above show them, and `findings` has the source lines:
seqnos compared raw when popping acknowledged segments (tcp_sender.cc:105), the
room in the window wrapping below zero on a late ACK (tcp_sender.cc:55), a SYN
with data that comes again with the FIN (tcp_receiver.cc:36), `connect()`
returning on a bare ACK (tcp_sponge_socket.cc:224), rule 2 writing to a connection
that rule 1 has just seen reset (tcp_sponge_socket.cc:101), which ends the process, and
the copy reading standard input into a stream that has ended (bidirectional_stream_copy.cc:33). The last
takes a reset, or giving up, with the pair of sockets full: the hangup cancels rule 2 of the copy, its cancel ends
`_outbound`, and rule 1, which asks only for room and errors, reads on. `NothingLost` says that this is the
only way a byte is lost while the process lives.
A seventh, that the RST of a destroyed socket is queued in an object about to be
destroyed (tcp_sponge_socket.cc:265), is in the model (`LoopLeave`) and listed as a hazard.

## Proofs

`WrappingProofs` is about `wrap` and `unwrap` for every `Half32 > 0`
(`Half32Assumption`) and every number that leaves size_t a turn of the ring of room
(`MaxAbsAssumption`). `UnwrapInvertsWrap` says that unwrap gives back what wrap was
given when the checkpoint is within half the ring, and `UnwrapMeetsItsDoc` that what
it returns wraps to n with nothing closer to the checkpoint. The argument: `%` is used
only through division with remainder (`ModDecomposed`, `ModUnique` of `InboundLemmas`); `UnwrapValue`
writes the result as the checkpoint plus an offset, one turn back or not;
two candidates differ by a multiple of the ring smaller than the ring, so by 0.

`ReassemblerProofs` is about `ReassemblerSpec` for every stream, every capacity and
every width of size_t with room for their sum (`StreamAssumption`,
`CapacityAssumption`, `WidthAssumption`): all its properties, and `Refinement`, that it
implements `IdealReassembler`. None of them is inductive alone. That the
output is right needs the bytes of every segment, that a merged segment is right needs
the others disjoint, that the count is right needs the same, and that clearing `_buf`
at the end loses nothing needs every segment behind the first missing byte. The
inductive invariant is `Good` of the object and what was read of it: the output and what was read are the
stream's bytes in order (`OutOK`); the segments are slices of the stream (`Slice`), pairwise
apart, and counted exactly (`Bufs`); they lie strictly inside the window; and the input has
ended exactly when the end is known and reached. A push is followed through its
stages, with a lemma of `InboundLemmas` for each function of the code:

- `note_eof` (`NoteKeeps`): the end index is the stream's length;
- `trim_front`, `trim_back` (`CutSlice`): what is left holds every byte of the window
  the segment had. It may reach beyond the window's end, but only when it begins at
  the first unassembled byte; hence the weaker `Placed` and `Stored` between the stages;
- `merge_seg`, `_handle_overlap` (`MergeSlice`, `MergedApart`, `OverlapKeeps`): the merged
  segment is the interval from the first to the last byte of all it touches, each of
  its bytes has a source, and it touches no other segment;
- `_buf_erase`, `_buf_insert` (`EraseKeeps`, `InsertKeeps`): the count stays the number of bytes;
- writing (`EndOfRun`, `BufferedRun`, `WriteNext`, `WriteKeeps`): the run of contiguous
  bytes ends at the first gap or the window's end, all of it fits, and what is left is behind it;
- `end_input` and `_buf.clear()` (`FinishKeeps`): nothing is left to clear.

`Holds` follows which bytes are kept through the stages; it gives
`NothingRefused` and the steps of the refinement (`PushDelivers`, `ReadConsumes`).

`ReceiverProofs` is about `ReceiverSpec` for every stream, capacity, set of ISNs and
width of the ring: `Delivers`, and `ReceiverRefinement`, that behind 32-bit seqnos the same
contract holds. The inductive invariant `RInv` is `Good` again, and that the ISN is the
peer's from the SYN on. `Unwrapped` is the step that matters: unwrapping around the first
unassembled byte gives a segment its own number when that is within half the ring, and
one turn more when it is further behind, which lies beyond the window, so that the push changes
nothing (`PushedOutside`). A repeated SYN has index 2^64 - 1 and is empty (`EmptyPush`). The theorems
assume `SynCarriesData = FALSE`; `receiver_syn_data` shows what happens otherwise.
`WindowKept` needs in addition that the capacity is less than half the ring: an
edge that moved further in one step could not be told from one that moved back. The
default is 64000 of 2^31.

`SenderProofs` is about `SenderSpec` for every stream that fits half the ring, every capacity,
payload size, timeout, ISN and window, with late ACKs or without. The properties
do not hold inductively one by one: that a retransmission carries the right bytes needs the
place of every outstanding segment, that an ACK leaves the right ones needs them to follow
one another, and that fill_window uses the window needs how the stream, its bytes read and
next_seqno go together. `IInv` says: the stream holds the bytes behind those sent
(`StreamOK`); next_seqno counts the SYN, the bytes read and the FIN (`NumbersOK`); there are
absolute numbers at which the outstanding segments stand without a gap up to next_seqno
(`Follows`, `At`), the oldest unacknowledged one in the first (`HoldsOldest`); the timer goes with the
queue (`TimerOK`); what was sent stands in its place (`Placed`); and nothing waits that the window
has room for (`WindowFull`). One lemma of `ConnectionLemmas` follows each method:

- `fill_window` (`FillKeeps`): SYN, bytes cut into payloads or FIN (`SynSent`, `BytesSent`,
  `CutFollows`, `FinSent`), or nothing, and then the reason (`NothingSent`); `RemainingWin` has the
  subtraction that can wrap;
- `ack_received` (`AckKeeps`): unwrapping recovers the peer's number (`UnwrapRecovers`), a new
  one drops a prefix of the queue (`Dropped`, `NewAck`), one beyond what was sent changes nothing
  (`ImpossibleAck`);
- `tick` (`TickKeeps`): `TimerStep`, and the first segment goes out again;
- writing and ending the stream (`WriteStep`, `EndStep`).

Which segments are dropped is a comparison of raw 32-bit numbers. `QueueIsInFlight` therefore
assumes that the numbers of the stream do not pass 2^32 from any ISN (`NoRawWrap`): `sender_wrap`
is the counterexample without it. The other theorems need no such assumption: the queue is then
still a run of segments up to next_seqno, only not the right one. The timeout is a
recursive function (`doubled`), and that such a function exists is the lemma `Doubled`, by
`LeastNatural`.

`PairProofs` is about `ConnectionPair`, two `TCPConnection`s with all their calls and a network that
loses, repeats and reorders, for every two streams, capacities, payload size, timeout, tick
and ISNs: `ReliableStreams` (both directions implement `StreamContract`), `CleanClose`, `AckedHeld`,
`SomeoneLingers` and `PairTypes`. The lemmas about a sender and a receiver are used at each end as they
are; what is new is how the two ends and the network hold together. The inductive invariant
`PInv` says, of each end (`Side`):

- its sender is as `SenderProofs` has it (`Idle`) and its receiver as `ReceiverProofs` has it, for the
  peer's stream and ISN (`ReceiverOK`);
- its receiver holds no byte, in order or not, no SYN and no FIN that the peer's sender has not sent
  (`Held`). This is what ties what is delivered to what had been written by then;
- its sender takes nothing for acknowledged that the peer's receiver does not have (`Acked`);
- it has given up lingering only if the peer's stream has ended here, and has stopped only with an
  error, or with that and all of its own stream and FIN acknowledged (`End`);

of each segment on its way, however old (`Mailed`): it is a piece of its sender's stream in its
place that has been sent, or carries nothing, and it acknowledges a number between the first and
what its sender's receiver asks for by now (`Post`); and that some end lingers. `Move` is what a call
does: the sender's numbers grow, the receiver's advance, every segment queued is such a letter,
and lingering is given up only while the own stream has not ended. `ConnectionLemmas` has a lemma for each call
(`ConnectCall`, `WriteCall`, `EndCall`, `ReceiveCall`, `TickCall`, `ReadCall`), which follows it through the
sender's and receiver's methods, `send_segment` (`Flushed`), `clean_shutdown` (`FlushEnds`) and
`unclean_shutdown` with its RST (`UncleanEnds`, `RstSent`); `PairStep` puts two turns and the network together.
`OneEndLingers` then holds because the end that gives up second would have to have its own
stream unended while the other has seen its end (`LingerStep`), and a clean close is complete
because an acknowledged FIN is one the peer's receiver has, behind all the bytes.

What `PairAssumption` asks of the constants: a stream with its SYN and FIN takes at most half the
ring, 2^31 numbers, and with the receiver's capacity less than the whole of it. The code has no
timestamps and the network here keeps a segment for any time, so that in a longer stream an
old seqno or ackno would come round again and be taken for a new one. Nothing keeps the
numbers from passing 2^32: the raw comparison of `sender_wrap` can leave the wrong segments in the outstanding
queue, so that one is not sent again or one is sent in vain, but nothing wrong is ever delivered or
taken for acknowledged.

`SocketProofs` is about `SocketSpec`, the program of two threads, two event loops, a pair of sockets and
a peer, for every two streams, every size of every buffer and window, timeout, tick and pair of ISNs,
and every set of scenarios and faults. It proves `SocketTypes`, `NoByteLost`, `WholeEnds`
and `LoudFailure` from one inductive invariant, `SocketInv`. What it is made of, and why:

- `Net`: the two connections are two halves as in `PairProofs` (`Half`), and every datagram, in either
  direction and also those still in the connection's queue, is such a letter (`Post`). Without it a
  segment that arrives says nothing about what is written into the inbound stream. The pair's network
  is a bag, this one is two queues, but the lemmas about the calls are the same;
- `Accounted`: what has been written into the connection, what is in the channel, in the copy's stream,
  what was dropped in front of it, what is to be read of standard input and what is still to be typed make up the
  input, in this order. The way back needs no part of its own: what
  was printed, is in the copy's stream and in the channel is what has been read of the connection, the
  third argument of `Net`;
- `UpOK`, `UpEnd`, `OutboundEnd`: the way up is shut only when nothing is left to go through it, or when
  the thread has ended. A read of nothing is what rule 2 takes for the end of the stream, and `end_input_stream`
  after it must come behind the last byte. The exception is why these have the thread's end (`en`) as a parameter: the
  thread shuts both directions, the owner's loop then sees a hangup, and cancels the rule that
  writes the socket with bytes unwritten, which ends the copy's stream in the middle of the input. `OutboundEnd` has both
  cases: the stream has ended behind all of the input, or the thread has ended and rule 2 is cancelled with no
  result of it left. Only in the second can rule 1 read a byte for a stream that takes none (`DroppedLate`), and
  since rule 2 never runs again, nothing typed later gets in front of it;
- `Results` and the corresponding parts of `CopyOK`: a result of poll that waits for its callback still
  holds. Rule 2's callback reads without asking again, and a read that finds nothing would be an end of file;
- `Ends`: the descriptor's eof, the connection's end of input and `_outbound_shutdown` go together in one direction;
- `Strange`: a RST comes from the stranger or from a peer that has reset, so that an error without a
  reset is this side's own giving up;
- `Gives`: a connection that failed by itself has a RST in its queue, on the wire or with the peer, and a thread
  that left its loop unaborted left the queue empty. It needs `Trying`: an active connection has not counted more than
  the retries allowed, so that giving up happens in the tick that has just queued a retransmission;
- `PeerOK`, `Owned`, `Bounded`, and the types.

The proof goes rule by rule: `CopyStdin`, `CopySocket`, `CopyReading`, `CopyPrinting` and `CopyCancels` are
the callbacks of the owner's loop, `ThreadReceives`, `ThreadTakes`, `ThreadGives`, `ThreadSends` and `ThreadCancels` those of the
thread's, each for any state that its poll may have reported; `CopyServe`, `ThreadServes`, `CopySetUp`, `ThreadSetUp` and
`ThreadTurnEnds` are the parts of `wait_next_event` and `_tcp_loop`, and each action of the specification is made of these.
The peer's answer (`PeerAnswers`) is made of the same calls of a connection, in the order of its program. `Minds`, `Keeps` and `Behaves` say what
each call leaves alone, which `PairProofs` did not need: that nothing but the owner writes to the outbound stream or
ends it, that only `unclean_shutdown` sets an error or makes a RST.

`SocketSpecAssumption` asks of the streams what `PairAssumption` does, and that a window fits an
absolute number (`MaxU16 < Mod64`). Nothing is asked of the buffers but that they
hold a byte. `NoByteLost` is about a process that lives: `socket_reset` shows how a reset ends it. What it allows to be lost,
`socket_dropped` shows to be lost.

## Only model-checked

Liveness (`BothClose`, `Finishes`). `NoFaultNoFailure` and `EndIsTheEnd` say that an undisturbed connection never gives up,
which rests on time passing only on a quiet line and on the peer always answering before that: an invariant about what each side
will do next, which the lemmas about single calls do not give. `NothingStranded`, whose first part says what the copy's loop leaves behind
when it ends and whose second rests on the same. Everything about the adapters' bytes. That the loops of the reassembler compute `merge_seg` and
`write_contiguous` (`LoopsAgree`, as `LoopsCompute` in `MCParts`) is an induction over the set of segments, and is
checked by TLC on the bounded instance only: the prover has no induction over data,
no RECURSIVE operators, and neither fairness nor ENABLED. That a segment gets through the codecs
(`EndToEnd`, `Delivers` of `AdapterSpec`) is about recursive operators on bytes.

## Plan

1. Proofs: that an undisturbed connection never gives up (`NoFaultNoFailure`, `EndIsTheEnd`), from an
   invariant that bounds the retransmissions by what is on the wire. `OnePeer` of the adapters would rest on the
   checksum over the address, an operator on bytes, in the TUN layer, and on nothing of the kind over UDP.
2. Segments in LISTEN (tests/fsm_listen.cc, tests/fsm_ack_rst.cc) as a peer that
   is not a `TCPConnection`.
3. The lossy wrapper under the socket, with the retries it causes.

## Not modelled, and why

Signals (EINTR makes `wait_next_event` return `Exit`) and errors of poll: the program has
no handler and no descriptor that fails. Address resolution, socket options and
opening a TUN device are system calls without state of the protocol; `SystemCall`,
timestamps, random numbers, hexdump, `to_string` and `summary` are I/O and formatting.
Of `Buffer`, that storage is shared and released early. The counts of reads and writes of
a descriptor: only whether a callback served its descriptor matters, and the race on them is a
hazard without a property. Among the applications the command lines (numbers and names
copied into a configuration), `udp_tcpdump` (a pipe into a text dump), `tcp_benchmark` (two connections
in one loop that moves segments by hand, which `ConnectionPair` covers), and
`webget`, `tcp_native` and `tun`, which use the kernel's TCP or print datagrams. `CS144TCPSocket` fills
in a configuration. `build/` is generated, `tests/` and `doctests/` are read as
documentation.
