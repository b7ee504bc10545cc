------------------------------ MODULE Telemetry ------------------------------
(***************************************************************************)
(* The figures a client shows after every answer: class Telemetry and the  *)
(* three transports' update_rtt_value and telemetry_update, called in the  *)
(* order of the client's login and chat loops.                             *)
(*                                                                         *)
(* Time runs in ticks of 50 ms.  A quotient is kept as the pair of its     *)
(* numerator and denominator, a rate as bytes and ticks.                   *)
(***************************************************************************)
EXTENDS Integers

CONSTANTS
    Payloads,   \* sizes of the messages
    Rtts,       \* round trip times the client measures
    MaxSent,    \* bound on the messages
    MaxDoubles, \* bound on the answers a client counts after a duplication
    MaxRetrans, \* bound on the kernel's retransmissions
    MaxTime     \* bound on the ticks

ASSUME SizesAssumption  == Payloads \subseteq Nat /\ Rtts \subseteq Nat
ASSUME BoundsAssumption == /\ MaxSent \in Nat /\ MaxDoubles \in Nat
                           /\ MaxRetrans \in Nat /\ MaxTime \in Nat

Header == 4
Nonce  == 8
Window == 2     \* duration_ms >= 100

VARIABLES
    kind,       \* the transport, chosen on the command line
    pc,         \* where the client's loop is
    now,
    retrans,    \* the kernel's count of retransmissions of the connection
    stats,
    requests,   \* total_sent_requests (total_packets_sent), and last_sent_count
    responses,  \* total_received_responses, and last_recvd_count
    inFlight,   \* messages sent that may still be answered
    doubled,    \* history: whether the network has duplicated a datagram
    inWindow,   \* history: bytes counted since last_check_time
    rtts        \* history: the last two round trips measured

vars == <<kind, pc, now, retrans, stats, requests, responses, inFlight, doubled,
          inWindow, rtts>>

Kinds == {"tcp", "sctp", "udp"}

Init ==
    /\ kind \in Kinds
    /\ pc = "login"
    /\ now = 0
    /\ retrans = 0
    /\ stats = [rtt_ms |-> 0, jitter |-> 0, total_packets |-> 0,
                total_bytes_sent |-> 0, last_total_bytes |-> 0, last_check_time |-> 0,
                packet_loss |-> <<0, 1>>, packet_loss_windowed |-> <<0, 1>>,
                throughput |-> <<0, 1>>, goodput |-> <<0, 1>>, mtu |-> "indeterminate"]
    /\ requests = [total |-> 0, last |-> 0]
    /\ responses = [total |-> 0, last |-> 0]
    /\ inFlight = 0
    /\ doubled = FALSE
    /\ inWindow = 0
    /\ rtts = <<0, 0>>

-----------------------------------------------------------------------------
(* telemetry_update. *)

\* Mutant: retransmissions over messages.
RetransLoss_OverMessages(s) ==
    IF s.total_packets > 0 THEN <<retrans, s.total_packets>> ELSE s.packet_loss

\* Over TCP and SCTP the kernel is asked; it counts segments, not messages.
RetransLoss(s) ==
    IF s.total_packets > 0 THEN <<retrans, s.total_packets + retrans>> ELSE s.packet_loss

Loss(sent, recvd) == <<sent - recvd, sent>>

UdpLoss(s) ==
    IF requests.total > 0 THEN Loss(requests.total, responses.total) ELSE s.packet_loss

\* The counts of the last window are never brought up to date, so the window
\* reaches back to the beginning.
WindowedLoss(s) ==
    IF kind = "udp" /\ requests.total > requests.last
    THEN Loss(requests.total - requests.last, responses.total - responses.last)
    ELSE s.packet_loss_windowed

\* Mutant: as over the other transports.
SctpBytesKept_Never(s) == s.last_total_bytes

SctpBytesKept(s) == s.total_bytes_sent

Throughput(s) == <<s.total_bytes_sent - s.last_total_bytes, now - s.last_check_time>>

\* throughput * (1 - loss)
Share(throughput, loss) == <<throughput[1] * (loss[2] - loss[1]), throughput[2] * loss[2]>>

\* Only SCTP remembers the bytes that were counted.
Updated(s) ==
    IF now - s.last_check_time < Window THEN s
    ELSE LET loss == IF kind = "udp" THEN UdpLoss(s) ELSE RetransLoss(s)
         IN  [s EXCEPT
                 !.packet_loss = loss,
                 !.packet_loss_windowed = WindowedLoss(s),
                 !.throughput = Throughput(s),
                 !.goodput = Share(Throughput(s), loss),
                 !.last_check_time = now,
                 !.last_total_bytes = IF kind = "sctp" THEN SctpBytesKept(s) ELSE @]

\* SCTP_GET_ASSOC_STATS fails for an association that is gone, and the figures
\* stay as they are; TCP and UDP always have an answer.
Updates(s) == {Updated(s)} \cup (IF kind = "sctp" THEN {s} ELSE {})

\* Mutant: the kernel is not asked.
MtusAfter_NotAsked(s, ok) == {s.mtu}

\* update_mtu before each send.  The kernel knows the path of a socket that has
\* just been connected, unless the connection is gone again and the send fails
\* too.  Later it may have dropped the path, of a socket it can still send on:
\* stats.mtu then stays what it was, in the beginning whatever the memory held,
\* or becomes 1500.
MtusAfter(s, ok) ==
    {"known"} \cup
    (IF requests.total = 0 /\ (ok \/ kind = "udp") THEN {} ELSE {s.mtu})

Counted(s, bytes) == [s EXCEPT !.total_bytes_sent = @ + bytes]

WindowAfter(s, bytes) == (IF s.last_check_time # stats.last_check_time THEN 0 ELSE inWindow) + bytes

-----------------------------------------------------------------------------
(* The loops. *)

\* send over TCP and SCTP: telemetry_update, then the frame, which is counted
\* when all of it was written.
SendFrame(n, ok) ==
    /\ kind \in {"tcp", "sctp"}
    /\ \E s \in Updates(stats), mtu \in MtusAfter(stats, ok) :
           LET bytes == IF ok THEN Header + Nonce + n ELSE 0
           IN  /\ stats' = [Counted(s, bytes) EXCEPT !.mtu = mtu]
               /\ inWindow' = WindowAfter(s, bytes)
    /\ requests' = IF ok THEN [requests EXCEPT !.total = @ + 1] ELSE requests

\* send over UDP: the attempt is counted, the bytes if they were sent.
SendDatagram(n, ok) ==
    /\ kind = "udp"
    /\ \E mtu \in MtusAfter(stats, ok) :
           stats' = [Counted(stats, IF ok THEN n ELSE 0) EXCEPT !.mtu = mtu]
    /\ inWindow' = IF ok THEN inWindow + n ELSE inWindow
    /\ requests' = [requests EXCEPT !.total = @ + 1]

\* A failed transmission ends the chat loop, not the login loop.
Send == \E n \in Payloads, ok \in BOOLEAN :
    /\ pc \in {"login", "chat"}
    /\ requests.total < MaxSent
    /\ pc' = IF pc = "login" THEN "loginWaits" ELSE IF ok THEN "chatWaits" ELSE "over"
    /\ SendFrame(n, ok) \/ SendDatagram(n, ok)
    /\ inFlight' = IF ok THEN inFlight + 1 ELSE inFlight
    /\ UNCHANGED <<kind, now, retrans, responses, doubled, rtts>>

\* An answer, to whichever request, is counted.  A datagram that the network
\* duplicates, in either direction, is answered more than once.
Receive ==
    /\ pc \in {"loginWaits", "chatWaits"}
    /\ inFlight > 0
    /\ \/ inFlight' = inFlight - 1 /\ UNCHANGED doubled
       \/ /\ kind = "udp" /\ responses.total < MaxDoubles
          /\ doubled' = TRUE /\ UNCHANGED inFlight
    /\ responses' = [responses EXCEPT !.total = @ + 1]
    /\ pc' \in IF pc = "loginWaits" THEN {"login", "chat"} ELSE {"measure"}
    /\ UNCHANGED <<kind, now, retrans, stats, requests, inWindow, rtts>>

ReceiveNothing ==
    /\ pc \in {"loginWaits", "chatWaits"}
    /\ pc' = IF pc = "loginWaits" THEN "login" ELSE "measure"
    /\ UNCHANGED <<kind, now, retrans, stats, requests, responses, inFlight, doubled,
                   inWindow, rtts>>

Abs(x) == IF x < 0 THEN -x ELSE x

\* Mutant: the new round trip time is stored before the old one is used.
Measured_StoredFirst(s, rtt_val) ==
    [s EXCEPT !.jitter = IF s.total_packets > 0 THEN 0 ELSE @,
              !.rtt_ms = rtt_val, !.total_packets = @ + 1]

\* update_rtt_value
Measured(s, rtt_val) ==
    [s EXCEPT !.jitter = IF s.total_packets > 0 THEN Abs(rtt_val - s.rtt_ms) ELSE @,
              !.rtt_ms = rtt_val, !.total_packets = @ + 1]

\* The end of a round of the chat loop: update_rtt_value, the figures are
\* shown, telemetry_update.
Measure == \E rtt_val \in Rtts :
    /\ pc = "measure"
    /\ \E s \in Updates(Measured(stats, rtt_val)) :
           stats' = s /\ inWindow' = WindowAfter(s, 0)
    /\ rtts' = <<rtts[2], rtt_val>>
    /\ pc' = "chat"
    /\ UNCHANGED <<kind, now, retrans, requests, responses, inFlight, doubled>>

Retransmit ==
    /\ kind # "udp" /\ retrans < MaxRetrans /\ requests.total > 0
    /\ retrans' = retrans + 1
    /\ UNCHANGED <<kind, pc, now, stats, requests, responses, inFlight, doubled,
                   inWindow, rtts>>

Tick ==
    /\ now < MaxTime
    /\ now' = now + 1
    /\ UNCHANGED <<kind, pc, retrans, stats, requests, responses, inFlight, doubled,
                   inWindow, rtts>>

Next == Send \/ Receive \/ ReceiveNothing \/ Measure \/ Retransmit \/ Tick

Spec == Init /\ [][Next]_vars

-----------------------------------------------------------------------------
(* Properties. *)

\* A loss is at most the whole, and unless the network has duplicated a
\* datagram it is not negative: over TCP and SCTP always.
IsLoss(q) == /\ q[1] <= q[2] /\ q[2] > 0
             /\ 0 <= q[1] \/ (kind = "udp" /\ doubled)

\* The losses that are shown are shares of the whole, in whatever order sends,
\* answers, retransmissions and updates come; only over UDP, and only after a
\* datagram was duplicated, may one be negative.
LossIsFraction == IsLoss(stats.packet_loss) /\ IsLoss(stats.packet_loss_windowed)

\* No answer is followed by a figure that was never set: stats.mtu, which has
\* no initial value, is known by the time the first answer is there.
MtuIsKnown == responses.total > 0 => stats.mtu = "known"

\* Jitter is the difference of the last two round trips of the chat, although
\* one variable holds the old one and the new one.
JitterOfLastTwo ==
    stats.total_packets >= 2 => stats.jitter = Abs(rtts[2] - rtts[1])

\* What the next window will count is what was sent since the last one, over
\* SCTP: no byte is counted in two windows, none in no window.
SctpWindowsAreDisjoint ==
    kind = "sctp" => stats.total_bytes_sent - stats.last_total_bytes = inWindow

\* A throughput is of all bytes sent in that particular measurement
\* (TCPClientTransport.cpp:215, UDPClientTransport.cpp:165).
WindowsAreDisjoint == stats.total_bytes_sent - stats.last_total_bytes = inWindow
=============================================================================
