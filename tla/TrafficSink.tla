----------------------------- MODULE TrafficSink -----------------------------
(***************************************************************************)
(* The sinks for background noise (server_code/TrafficSink.cpp) of the     *)
(* server processes of one host, all of which want the same UDP port, and  *)
(* the datagrams the clients' TrafficGenerators send to it.                *)
(*                                                                         *)
(* A sink is never stopped: start_transmission does not return, so stop()  *)
(* and the destructor only run in a process that has not started it.       *)
(***************************************************************************)
EXTENDS Naturals, Sequences

CONSTANTS
    Procs,      \* the server processes
    RcvBuf      \* bound: the datagrams the kernel keeps for the port

VARIABLES
    sink,       \* where the sink of each process is
    noise       \* the sizes of the datagrams nobody has read yet

sinkVars == <<sink, noise>>

Bound == {"receiving", "ended"}

SinkTypeOK ==
    /\ sink \in [Procs -> Bound \cup {"new", "unbound"}]
    /\ noise \in Seq(Nat)

Init == /\ sink = [p \in Procs |-> "new"]
        /\ noise = <<>>

PortHeld == \E p \in Procs : sink[p] \in Bound

\* start(9999): socket or bind may fail for a port that is free, too.  Its
\* result is not looked at: a sink that could not bind is not started again,
\* though the port may become free.
Start(p) ==
    /\ sink[p] = "new"
    /\ \/ ~PortHeld /\ sink' = [sink EXCEPT ![p] = "receiving"]
       \/ sink' = [sink EXCEPT ![p] = "unbound"]
    /\ UNCHANGED noise

\* Mutant: the bytes 'X' of junk, without a packet_size.
PacketSize_Unset == 0

\* bg_traffic.start(1400, 0)
PacketSize == 1400

\* A datagram for a port nobody holds, or for a full buffer, is dropped.
Arrive ==
    /\ PortHeld
    /\ Len(noise) < RcvBuf
    /\ noise' = Append(noise, PacketSize)
    /\ UNCHANGED sink

\* bytes <= 0 ends the loop; the socket stays open and bound.
Receive(p) ==
    /\ sink[p] = "receiving"
    /\ noise # <<>>
    /\ noise' = Tail(noise)
    /\ sink' = [sink EXCEPT ![p] = IF Head(noise) > 0 THEN @ ELSE "ended"]

\* The process ends, and its socket with it.
Vanish(p) ==
    /\ sink' = [sink EXCEPT ![p] = "new"]
    /\ noise' = IF sink[p] \in Bound THEN <<>> ELSE noise
=============================================================================
