--------------------------- MODULE TelemetryProofs ---------------------------
(***************************************************************************)
(* Theorems about Telemetry, for messages of any size, round trips of any  *)
(* length and any bounds.                                                  *)
(***************************************************************************)
EXTENDS Telemetry, TLAPS

Quotient == Int \X Int

Stats == [rtt_ms : Nat, jitter : Int, total_packets : Nat,
          total_bytes_sent : Nat, last_total_bytes : Nat, last_check_time : Nat,
          packet_loss : Quotient, packet_loss_windowed : Quotient,
          throughput : Quotient, goodput : Quotient, mtu : {"known", "indeterminate"}]

\* The counters: an answer is to a message that was counted when it was sent,
\* and to no other's, unless a datagram was duplicated; last_sent_count and
\* last_recvd_count are never assigned.
Counters ==
    /\ retrans \in Nat /\ inFlight \in Nat /\ now \in Nat
    /\ requests \in [total : Nat, last : {0}]
    /\ responses \in [total : Nat, last : {0}]
    /\ inFlight <= requests.total
    /\ responses.total > 0 => requests.total > 0
    /\ \/ responses.total + inFlight <= requests.total
       \/ kind = "udp" /\ doubled

\* What the figures satisfy on their own, before and after an update.
Sound(s) ==
    /\ s \in Stats
    /\ IsLoss(s.packet_loss) /\ IsLoss(s.packet_loss_windowed)

\* The first message was sent on a socket whose MTU is known; the last round
\* trip is the one that is stored.
TelInv ==
    /\ Counters
    /\ Sound(stats)
    /\ rtts \in Nat \X Nat
    /\ inWindow \in Nat
    /\ requests.total > 0 => stats.mtu = "known"
    /\ stats.total_packets >= 1 => stats.rtt_ms = rtts[2]
    /\ JitterOfLastTwo
    /\ SctpWindowsAreDisjoint

-----------------------------------------------------------------------------
(* telemetry_update. *)

LEMMA ShareType ==
    ASSUME NEW a \in Quotient, NEW b \in Quotient
    PROVE  Share(a, b) \in Quotient
<1>1. a[1] \in Int /\ a[2] \in Int /\ b[1] \in Int /\ b[2] \in Int
  BY DEF Quotient
<1>2. a[1] * (b[2] - b[1]) \in Int /\ a[2] * b[2] \in Int
  BY <1>1
<1> QED  BY <1>2 DEF Share, Quotient

\* Each of the three losses is a share, because what is divided is counted on
\* both sides of the quotient; the answers to a duplicate are counted on one.
LEMMA QuotientsAreLosses ==
    ASSUME Counters, NEW s, Sound(s)
    PROVE  /\ RetransLoss(s) \in Quotient /\ IsLoss(RetransLoss(s))
           /\ UdpLoss(s) \in Quotient /\ IsLoss(UdpLoss(s))
           /\ WindowedLoss(s) \in Quotient /\ IsLoss(WindowedLoss(s))
<1>1. s.total_packets \in Nat /\ s.packet_loss \in Quotient /\ s.packet_loss_windowed \in Quotient
  BY DEF Sound, Stats
<1>2. /\ retrans \in Nat /\ requests.total \in Nat /\ responses.total \in Nat
      /\ requests.last = 0 /\ responses.last = 0
      /\ responses.total <= requests.total \/ (kind = "udp" /\ doubled)
  BY DEF Counters
<1>3. RetransLoss(s) \in Quotient /\ IsLoss(RetransLoss(s))
  BY <1>1, <1>2 DEF RetransLoss, IsLoss, Quotient, Sound
<1>4. UdpLoss(s) \in Quotient /\ IsLoss(UdpLoss(s))
  BY <1>1, <1>2 DEF UdpLoss, Loss, IsLoss, Quotient, Sound
<1>5. WindowedLoss(s) \in Quotient /\ IsLoss(WindowedLoss(s))
  BY <1>1, <1>2 DEF WindowedLoss, Loss, IsLoss, Quotient, Sound
<1> QED  BY <1>3, <1>4, <1>5

\* An update renews the figures together, or leaves them all alone.
LEMMA UpdateIsSound ==
    ASSUME Counters, NEW s, Sound(s), NEW r \in Updates(s)
    PROVE  /\ Sound(r)
           /\ r.rtt_ms = s.rtt_ms /\ r.jitter = s.jitter /\ r.total_packets = s.total_packets
           /\ r.total_bytes_sent = s.total_bytes_sent /\ r.mtu = s.mtu
           /\ \/ r.last_check_time = s.last_check_time /\ r.last_total_bytes = s.last_total_bytes
              \/ /\ r.last_check_time # s.last_check_time
                 /\ kind = "sctp" => r.last_total_bytes = s.total_bytes_sent
<1>1. CASE r = s
  BY <1>1
<1>2. CASE r = Updated(s) /\ r # s
  <2> DEFINE loss == IF kind = "udp" THEN UdpLoss(s) ELSE RetransLoss(s)
  <2>1. /\ r = [s EXCEPT
                   !.packet_loss = loss,
                   !.packet_loss_windowed = WindowedLoss(s),
                   !.throughput = Throughput(s),
                   !.goodput = Share(Throughput(s), loss),
                   !.last_check_time = now,
                   !.last_total_bytes = IF kind = "sctp" THEN SctpBytesKept(s) ELSE @]
        /\ now - s.last_check_time >= Window
    BY <1>2 DEF Updated, Sound, Stats, Counters, Window
  <2>2. /\ loss \in Quotient /\ IsLoss(loss)
        /\ WindowedLoss(s) \in Quotient /\ IsLoss(WindowedLoss(s))
    BY QuotientsAreLosses
  <2> HIDE DEF loss
  <2>3. s \in Stats /\ now \in Nat
    BY DEF Sound, Counters
  <2>4. Throughput(s) \in Quotient
    BY <2>3 DEF Throughput, Quotient, Stats
  <2>5. Share(Throughput(s), loss) \in Quotient
    BY <2>2, <2>4, ShareType
  <2>6. SctpBytesKept(s) \in Nat /\ SctpBytesKept(s) = s.total_bytes_sent
    BY <2>3 DEF SctpBytesKept, Stats
  <2>7. r \in Stats
    BY <2>1, <2>2, <2>3, <2>4, <2>5, <2>6 DEF Stats
  <2>8. /\ r.packet_loss = loss /\ r.packet_loss_windowed = WindowedLoss(s)
        /\ r.last_check_time = now
        /\ kind = "sctp" => r.last_total_bytes = s.total_bytes_sent
        /\ r.rtt_ms = s.rtt_ms /\ r.jitter = s.jitter /\ r.total_packets = s.total_packets
        /\ r.total_bytes_sent = s.total_bytes_sent /\ r.mtu = s.mtu
    BY <2>1, <2>3, <2>6 DEF Stats
  <2>9. r.last_check_time # s.last_check_time
    BY <2>1, <2>3, <2>8 DEF Stats, Window
  <2> QED  BY <2>2, <2>5, <2>7, <2>8, <2>9 DEF Sound
<1> QED  BY <1>1, <1>2 DEF Updates

-----------------------------------------------------------------------------
(* The loops. *)

LEMMA InitTel == Init => TelInv
BY DEF Init, TelInv, Counters, Sound, Stats, Quotient, IsLoss, Share, JitterOfLastTwo,
       SctpWindowsAreDisjoint

\* The bytes of a window: what was counted since the figures were last renewed.
LEMMA WindowBytes ==
    ASSUME TelInv, NEW s \in Stats, NEW r \in Updates(s), Sound(s), NEW bytes \in Nat,
           s.last_check_time = stats.last_check_time,
           s.last_total_bytes = stats.last_total_bytes,
           s.total_bytes_sent = stats.total_bytes_sent
    PROVE  /\ WindowAfter(r, bytes) \in Nat
           /\ kind = "sctp" =>
                 r.total_bytes_sent + bytes - r.last_total_bytes = WindowAfter(r, bytes)
<1>1. /\ inWindow \in Nat /\ stats.total_bytes_sent \in Nat
      /\ stats.last_total_bytes \in Nat
      /\ kind = "sctp" => stats.total_bytes_sent - stats.last_total_bytes = inWindow
  BY DEF TelInv, Sound, Stats, SctpWindowsAreDisjoint
<1>2. /\ r.total_bytes_sent = s.total_bytes_sent
      /\ \/ r.last_check_time = s.last_check_time /\ r.last_total_bytes = s.last_total_bytes
         \/ /\ r.last_check_time # s.last_check_time
            /\ kind = "sctp" => r.last_total_bytes = s.total_bytes_sent
  BY UpdateIsSound DEF TelInv
<1>3. CASE r.last_check_time = s.last_check_time /\ r.last_total_bytes = s.last_total_bytes
  <2>1. WindowAfter(r, bytes) = inWindow + bytes
    BY <1>3 DEF WindowAfter
  <2>2. /\ r.total_bytes_sent = stats.total_bytes_sent
        /\ r.last_total_bytes = stats.last_total_bytes
    BY <1>2, <1>3
  <2>3. ASSUME NEW t \in Nat, NEW l \in Nat, NEW w \in Nat, t - l = w
        PROVE  t + bytes - l = w + bytes
    BY <2>3
  <2> QED  BY <1>1, <2>1, <2>2, <2>3
<1>4. CASE /\ r.last_check_time # s.last_check_time
           /\ kind = "sctp" => r.last_total_bytes = s.total_bytes_sent
  <2>1. WindowAfter(r, bytes) = bytes
    BY <1>4 DEF WindowAfter
  <2> QED  BY <1>1, <1>2, <1>4, <2>1
<1> QED  BY <1>2, <1>3, <1>4

\* A send counts its bytes and may learn the MTU, and changes no other figure.
Sent(s, bytes, mtu) == [Counted(s, bytes) EXCEPT !.mtu = mtu]

LEMMA SentIsSound ==
    ASSUME NEW s, Sound(s), NEW bytes \in Nat, NEW mtu \in {"known", "indeterminate"}
    PROVE  LET r == Sent(s, bytes, mtu)
           IN  /\ Sound(r)
               /\ r.mtu = mtu /\ r.total_bytes_sent = s.total_bytes_sent + bytes
               /\ r.rtt_ms = s.rtt_ms /\ r.jitter = s.jitter
               /\ r.total_packets = s.total_packets
               /\ r.last_total_bytes = s.last_total_bytes
<1> DEFINE r == Sent(s, bytes, mtu)
<1>1. s \in Stats
  BY DEF Sound
<1>2. r = [s EXCEPT !.total_bytes_sent = s.total_bytes_sent + bytes, !.mtu = mtu]
  BY <1>1 DEF Sent, Counted, Stats
<1> HIDE DEF r
<1>3. s.total_bytes_sent + bytes \in Nat
  BY <1>1 DEF Stats
<1>4. r \in Stats
  BY <1>1, <1>2, <1>3 DEF Stats
<1>5. /\ r.packet_loss = s.packet_loss /\ r.packet_loss_windowed = s.packet_loss_windowed
      /\ r.throughput = s.throughput /\ r.goodput = s.goodput
      /\ r.mtu = mtu /\ r.total_bytes_sent = s.total_bytes_sent + bytes
      /\ r.rtt_ms = s.rtt_ms /\ r.jitter = s.jitter /\ r.total_packets = s.total_packets
      /\ r.last_total_bytes = s.last_total_bytes
  BY <1>1, <1>2 DEF Stats
<1> QED  BY <1>4, <1>5 DEF Sound, r

\* What is sound stays so, over one transport and through any duplications.
LEMMA SoundStays ==
    ASSUME Sound(stats'), kind' = kind, doubled => doubled'
    PROVE  Sound(stats)'
BY DEF Sound, IsLoss

\* The three changes of the counters that a send makes.
LEMMA SendCounters ==
    ASSUME Counters, NEW ok \in BOOLEAN,
           inFlight' = IF ok THEN inFlight + 1 ELSE inFlight,
           \/ requests' = [requests EXCEPT !.total = @ + 1]
           \/ ~ok /\ requests' = requests,
           UNCHANGED <<kind, now, retrans, responses, doubled>>
    PROVE  Counters'
BY DEF Counters

LEMMA SendTel == ASSUME TelInv, Send PROVE TelInv'
<1>1. PICK n \in Payloads, ok \in BOOLEAN :
         /\ SendFrame(n, ok) \/ SendDatagram(n, ok)
         /\ inFlight' = IF ok THEN inFlight + 1 ELSE inFlight
         /\ UNCHANGED <<kind, now, retrans, responses, doubled, rtts>>
  BY DEF Send
<1>2. n \in Nat
  BY SizesAssumption
<1>3. /\ Counters'
      /\ requests'.total > 0 => requests.total > 0 \/ ok \/ kind = "udp"
  <2>1. \/ requests' = [requests EXCEPT !.total = @ + 1] /\ (ok \/ kind = "udp")
        \/ ~ok /\ requests' = requests
    BY <1>1 DEF SendFrame, SendDatagram
  <2> QED  BY <1>1, <2>1, SendCounters DEF TelInv, Counters
<1>4. Sound(stats) /\ stats \in Stats
  BY DEF TelInv, Sound
\* What both transports' sends come to.
<1>5. ASSUME NEW s, Sound(s), NEW bytes \in Nat, NEW mtu \in MtusAfter(stats, ok),
             stats' = Sent(s, bytes, mtu),
             s.rtt_ms = stats.rtt_ms, s.jitter = stats.jitter,
             s.total_packets = stats.total_packets,
             inWindow' \in Nat,
             kind = "sctp" => s.total_bytes_sent + bytes - s.last_total_bytes = inWindow'
      PROVE  TelInv'
  <2>1. /\ mtu \in {"known", "indeterminate"}
        /\ stats.mtu = "known" => mtu = "known"
        /\ requests.total = 0 /\ (ok \/ kind = "udp") => mtu = "known"
    BY <1>4, <1>5 DEF MtusAfter, Stats
  <2>2. /\ Sound(stats')
        /\ stats'.mtu = mtu /\ stats'.total_bytes_sent = s.total_bytes_sent + bytes
        /\ stats'.rtt_ms = s.rtt_ms /\ stats'.jitter = s.jitter
        /\ stats'.total_packets = s.total_packets
        /\ stats'.last_total_bytes = s.last_total_bytes
    BY <1>5, <2>1, SentIsSound
  <2>3. requests'.total > 0 => stats'.mtu = "known"
    BY <1>3, <2>1, <2>2 DEF TelInv, Counters
  <2>4. kind' = kind /\ rtts' = rtts
    BY <1>1
  <2>5. JitterOfLastTwo'
    BY <1>5, <2>2, <2>4 DEF TelInv, JitterOfLastTwo
  <2>6. rtts' \in Nat \X Nat /\ (stats'.total_packets >= 1 => stats'.rtt_ms = rtts'[2])
    BY <1>5, <2>2, <2>4 DEF TelInv
  <2>7. SctpWindowsAreDisjoint'
    <3>1. s.total_bytes_sent \in Nat /\ s.last_total_bytes \in Nat
      BY <1>5 DEF Sound, Stats
    <3>2. stats'.total_bytes_sent - stats'.last_total_bytes
             = s.total_bytes_sent + bytes - s.last_total_bytes
      BY <1>5, <2>2, <3>1
    <3> QED  BY <1>5, <2>4, <3>2 DEF SctpWindowsAreDisjoint
  <2>8. Sound(stats)'
    BY <1>1, <2>2, SoundStays
  <2> QED  BY <1>3, <1>5, <2>3, <2>5, <2>6, <2>7, <2>8 DEF TelInv
<1>6. CASE SendFrame(n, ok)
  <2> DEFINE bytes == IF ok THEN Header + Nonce + n ELSE 0
  <2>1. PICK s \in Updates(stats), mtu \in MtusAfter(stats, ok) :
           /\ stats' = Sent(s, bytes, mtu)
           /\ inWindow' = WindowAfter(s, bytes)
    BY <1>6 DEF SendFrame, Sent
  <2>2. bytes \in Nat
    BY <1>2 DEF Header, Nonce
  <2> HIDE DEF bytes
  <2>3. /\ Sound(s) /\ s.rtt_ms = stats.rtt_ms /\ s.jitter = stats.jitter
        /\ s.total_packets = stats.total_packets
    BY <1>4, UpdateIsSound DEF TelInv
  <2>4. /\ inWindow' \in Nat
        /\ kind = "sctp" => s.total_bytes_sent + bytes - s.last_total_bytes = inWindow'
    BY <1>4, <2>1, <2>2, WindowBytes
  <2> QED  BY <1>5, <2>1, <2>2, <2>3, <2>4
<1>7. CASE SendDatagram(n, ok)
  <2> DEFINE bytes == IF ok THEN n ELSE 0
  <2>1. PICK mtu \in MtusAfter(stats, ok) :
           stats' = Sent(stats, bytes, mtu)
    BY <1>7 DEF SendDatagram, Sent
  <2>2. bytes \in Nat /\ kind = "udp" /\ inWindow' \in Nat
    BY <1>2, <1>7 DEF SendDatagram, TelInv
  <2> HIDE DEF bytes
  <2> QED  BY <1>4, <1>5, <2>1, <2>2
<1> QED  BY <1>1, <1>6, <1>7

LEMMA MeasureTel == ASSUME TelInv, Measure PROVE TelInv'
<1>1. PICK rtt_val \in Rtts :
         /\ \E s \in Updates(Measured(stats, rtt_val)) :
                stats' = s /\ inWindow' = WindowAfter(s, 0)
         /\ rtts' = <<rtts[2], rtt_val>>
         /\ UNCHANGED <<kind, now, retrans, requests, responses, inFlight, doubled>>
  BY DEF Measure
<1> DEFINE m == Measured(stats, rtt_val)
<1>2. rtt_val \in Nat /\ Sound(stats) /\ stats \in Stats /\ rtts \in Nat \X Nat
  BY SizesAssumption DEF TelInv, Sound
<1>3. /\ m.rtt_ms = rtt_val
      /\ m.total_packets = stats.total_packets + 1
      /\ stats.total_packets > 0 => m.jitter = Abs(rtt_val - stats.rtt_ms)
      /\ m.mtu = stats.mtu /\ m.total_bytes_sent = stats.total_bytes_sent
      /\ m.last_total_bytes = stats.last_total_bytes
      /\ m.last_check_time = stats.last_check_time
      /\ m.packet_loss = stats.packet_loss /\ m.throughput = stats.throughput
      /\ m.packet_loss_windowed = stats.packet_loss_windowed /\ m.goodput = stats.goodput
  BY <1>2 DEF Measured, Stats
<1>4. Sound(m) /\ m \in Stats
  <2>1. Abs(rtt_val - stats.rtt_ms) \in Int
    BY <1>2 DEF Abs, Stats
  <2> DEFINE j == IF stats.total_packets > 0 THEN Abs(rtt_val - stats.rtt_ms)
                  ELSE stats.jitter
  <2>2. m = [stats EXCEPT !.jitter = j, !.rtt_ms = rtt_val,
                          !.total_packets = stats.total_packets + 1]
    BY <1>2 DEF Measured, Stats
  <2>3. j \in Int /\ stats.total_packets + 1 \in Nat
    BY <1>2, <2>1 DEF Stats
  <2> HIDE DEF j, m
  <2>4. m \in Stats
    BY <1>2, <2>2, <2>3 DEF Stats
  <2> QED  BY <1>2, <1>3, <2>4 DEF Sound
<1> HIDE DEF m
<1>5. PICK s \in Updates(m) : stats' = s /\ inWindow' = WindowAfter(s, 0)
  BY <1>1 DEF m
<1>6. /\ Sound(s) /\ s.rtt_ms = m.rtt_ms /\ s.jitter = m.jitter
      /\ s.total_packets = m.total_packets /\ s.mtu = m.mtu
      /\ s.total_bytes_sent = m.total_bytes_sent
  BY <1>4, UpdateIsSound DEF TelInv
<1>7. /\ inWindow' \in Nat
      /\ kind = "sctp" => s.total_bytes_sent - s.last_total_bytes = inWindow'
  <2>1. /\ WindowAfter(s, 0) \in Nat
        /\ kind = "sctp" => s.total_bytes_sent + 0 - s.last_total_bytes = WindowAfter(s, 0)
    BY <1>3, <1>4, WindowBytes
  <2>2. s.total_bytes_sent \in Nat /\ s.last_total_bytes \in Nat
    BY <1>6 DEF Sound, Stats
  <2>3. s.total_bytes_sent + 0 - s.last_total_bytes = s.total_bytes_sent - s.last_total_bytes
    BY <2>2
  <2> QED  BY <1>5, <2>1, <2>3
<1>8. rtts' \in Nat \X Nat /\ rtts'[1] = rtts[2] /\ rtts'[2] = rtt_val
  BY <1>1, <1>2
<1>9. JitterOfLastTwo'
  <2> SUFFICES ASSUME stats'.total_packets >= 2
               PROVE  stats'.jitter = Abs(rtts'[2] - rtts'[1])
    BY DEF JitterOfLastTwo
  <2>1. stats.total_packets >= 1
    BY <1>2, <1>3, <1>5, <1>6 DEF Stats
  <2>2. stats.rtt_ms = rtts[2]
    BY <2>1 DEF TelInv
  <2> QED  BY <1>2, <1>3, <1>5, <1>6, <1>8, <2>1, <2>2 DEF Stats
<1>10. Counters' /\ kind' = kind
  BY <1>1 DEF TelInv, Counters
<1>11. requests'.total > 0 => stats'.mtu = "known"
  BY <1>1, <1>3, <1>5, <1>6 DEF TelInv
<1>12. Sound(stats)'
  BY <1>1, <1>5, <1>6, SoundStays
<1> QED  BY <1>3, <1>5, <1>6, <1>7, <1>8, <1>9, <1>10, <1>11, <1>12
         DEF TelInv, SctpWindowsAreDisjoint

\* Answers, retransmissions and time change no figure until the next update.
LEMMA StepTel == TelInv /\ [Next]_vars => TelInv'
<1> SUFFICES ASSUME TelInv, [Next]_vars PROVE TelInv'
  OBVIOUS
<1>1. CASE Receive
  <2>1. Counters' /\ requests' = requests
    BY <1>1 DEF Receive, TelInv, Counters
  <2>2. UNCHANGED <<kind, stats, inWindow, rtts>>
    BY <1>1 DEF Receive
  <2>3. doubled => doubled'
    BY <1>1 DEF Receive
  <2> QED  BY <2>1, <2>2, <2>3, SoundStays DEF TelInv, JitterOfLastTwo, SctpWindowsAreDisjoint
<1>2. CASE ReceiveNothing \/ Retransmit \/ Tick \/ UNCHANGED vars
  <2>1. Counters' /\ UNCHANGED <<kind, stats, inWindow, rtts, requests, doubled>>
    BY <1>2 DEF ReceiveNothing, Retransmit, Tick, vars, TelInv, Counters
  <2> QED  BY <2>1, SoundStays DEF TelInv, JitterOfLastTwo, SctpWindowsAreDisjoint
<1> QED  BY <1>1, <1>2, SendTel, MeasureTel DEF Next

\* Each loss that is shown is a share of the whole: over TCP and SCTP always,
\* over UDP until the network duplicates a datagram; after that it may be
\* negative, but never more than the whole.
THEOREM LossesAreShares == Spec => []LossIsFraction
<1>1. TelInv => LossIsFraction
  BY DEF TelInv, Sound, LossIsFraction
<1> QED  BY <1>1, InitTel, StepTel, PTL DEF Spec

\* When there is an answer to show figures for, the MTU has been set.
THEOREM MtuIsSet == Spec => []MtuIsKnown
<1>1. TelInv => MtuIsKnown
  BY DEF TelInv, Counters, MtuIsKnown
<1> QED  BY <1>1, InitTel, StepTel, PTL DEF Spec

\* Jitter is of the last two round trips.
THEOREM JitterIsRight == Spec => []JitterOfLastTwo
<1>1. TelInv => JitterOfLastTwo
  BY DEF TelInv
<1> QED  BY <1>1, InitTel, StepTel, PTL DEF Spec

\* Over SCTP each byte is counted in exactly one window.
THEOREM SctpCountsOnce == Spec => []SctpWindowsAreDisjoint
<1>1. TelInv => SctpWindowsAreDisjoint
  BY DEF TelInv
<1> QED  BY <1>1, InitTel, StepTel, PTL DEF Spec
=============================================================================
