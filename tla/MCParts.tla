------------------------------ MODULE MCParts ------------------------------
(***************************************************************************)
(* The parts that other parts are made of, each with the specification     *)
(* that feeds it: sequence numbers, a reassembler, its loops, a receiver,  *)
(* and the datagrams of the adapters.  One of them moves while the others  *)
(* stay where they started.                                                *)
(***************************************************************************)
EXTENDS WrappingSpec, ReassemblerLoops, ReassemblerSpec, MCReceiver, MCAdapter

WrappingIdle == isn = 0 /\ abs = 0 /\ checkpoint = 0
LoopsIdle == looped = new_StreamReassembler(LoopsCapacity)
ReassemblerIdle == reasm = new_StreamReassembler(Capacity)
ReceiverIdle == rcv = new_TCPReceiver(Capacity) /\ peer_isn = 0
AdapterIdle == layer = "udp" /\ far.listening /\ flying = {} /\ last = {}

PartsInit ==
    /\ WrappingInit /\ LoopsInit /\ ReassemblerInit /\ Init /\ AdapterInit
    /\ \/ WrappingIdle /\ ReceiverIdle
       \/ WrappingIdle /\ AdapterIdle
       \/ ReceiverIdle /\ AdapterIdle

PartsNext ==
    \/ /\ LoopsIdle /\ ReassemblerIdle /\ ReceiverIdle /\ AdapterIdle /\ WrappingNext
       /\ UNCHANGED << looped, reassembler_vars, vars, adapter_vars >>
    \/ /\ WrappingIdle /\ ReassemblerIdle /\ ReceiverIdle /\ AdapterIdle /\ LoopsNext
       /\ UNCHANGED << wrapping_vars, reassembler_vars, vars, adapter_vars >>
    \/ /\ WrappingIdle /\ LoopsIdle /\ ReceiverIdle /\ AdapterIdle /\ ReassemblerNext
       /\ UNCHANGED << wrapping_vars, looped, vars, adapter_vars >>
    \/ /\ WrappingIdle /\ LoopsIdle /\ ReassemblerIdle /\ AdapterIdle /\ Next
       /\ UNCHANGED << wrapping_vars, looped, reassembler_vars, adapter_vars >>
    \/ /\ WrappingIdle /\ LoopsIdle /\ ReassemblerIdle /\ ReceiverIdle /\ AdapterNext
       /\ UNCHANGED << wrapping_vars, looped, reassembler_vars, vars >>

PartsSpec ==
    PartsInit /\ [][PartsNext]_<< wrapping_vars, looped, reassembler_vars, vars, adapter_vars >>

\* While it is the reassembler with the loops that moves, every next push does what the
\* loops of stream_reassembler.cc do.
LoopsCompute == WrappingIdle /\ ReassemblerIdle /\ ReceiverIdle /\ AdapterIdle => LoopsAgree

=============================================================================
