----------------------------- MODULE FrameStream -----------------------------
(***************************************************************************)
(* Frames over a TCP or SCTP connection, in the direction from the client  *)
(* to the server: send writes a length header and the encrypted body in as *)
(* many pieces as the kernel takes, recieve puts them together again.  The *)
(* other direction is the same code with the two programs exchanged.       *)
(*                                                                         *)
(* Messages are numbered in the order of the calls of send.  The unit      *)
(* <<id, k>> is the k-th piece of the frame of message id: the header, the *)
(* nonce, then the ciphertext, which only all of its pieces decipher.      *)
(***************************************************************************)
EXTENDS Integers, Sequences, SequencesExt

CONSTANTS
    HeaderSize, \* units of sizeof(frame_len)
    Nonce,      \* units of crypto_stream_chacha20_NONCEBYTES
    Limit,      \* units of 65536 * 2
    Sizes,      \* units of the messages
    MaxMsgs,    \* bound on the messages
    Capacity    \* units the kernel buffers

ASSUME UnitsAssumption == /\ HeaderSize \in Nat \ {0}
                          /\ Nonce \in Nat \ {0}
                          /\ Limit \in Nat /\ Sizes \subseteq Nat
                          /\ MaxMsgs \in Nat /\ Capacity \in Nat

VARIABLES
    kind,       \* "tcp" or "sctp"
    sizes,      \* of the messages send was called with
    left,       \* what the current call of send has still to write
    returned,   \* the last message whose send returned its size
    wopen,      \* the sender's end of the connection
    wire,       \* units in the kernel's buffers and on their way
    reset,      \* history: the connection was reset
    ropen,      \* the receiver's end
    got,        \* what the current call of recieve has read
    frame_len,  \* its frame_len, or Unknown while it reads the header
    delivered   \* the messages recieve returned

sender   == <<kind, sizes, left, returned, wopen>>
receiver == <<ropen, got, frame_len, delivered>>
vars     == <<sender, wire, reset, receiver>>

Unknown == -1
Garbage == [id |-> 0, size |-> 0]

Message == [id : 1..MaxMsgs, size : Sizes]

Frame(id, size) == [k \in 1..(HeaderSize + Nonce + size) |-> <<id, k>>]

\* Type invariant: what is left to write is the end of the last frame, and
\* recieve never holds more than it asked for nor a length past the limit.
FrameTypeOK ==
    /\ kind \in {"tcp", "sctp"}
    /\ sizes \in Seq(Sizes) /\ Len(sizes) <= MaxMsgs
    /\ left = <<>> \/ IsSuffix(left, Frame(Len(sizes), Last(sizes)))
    /\ returned \in 0..Len(sizes)
    /\ wopen \in BOOLEAN /\ ropen \in BOOLEAN /\ reset \in BOOLEAN
    /\ Len(wire) <= Capacity
    /\ Len(got) < IF frame_len = Unknown THEN HeaderSize ELSE frame_len
    /\ frame_len \in {Unknown} \cup 0..Limit
    /\ delivered \in Seq(Message \cup {Garbage})

Init ==
    /\ kind \in {"tcp", "sctp"}
    /\ sizes = <<>> /\ left = <<>> /\ returned = 0 /\ wopen = TRUE
    /\ wire = <<>> /\ reset = FALSE
    /\ ropen = TRUE /\ got = <<>> /\ frame_len = Unknown /\ delivered = <<>>

-----------------------------------------------------------------------------
(* send *)

\* The call: the message is encrypted.  The caller does not call again until
\* send has returned.
CallSend(size) ==
    /\ wopen /\ left = <<>>
    /\ Len(sizes) < MaxMsgs
    /\ sizes' = Append(sizes, size)
    /\ left' = Frame(Len(sizes) + 1, size)
    /\ UNCHANGED <<kind, returned, wopen, wire, reset, receiver>>

\* Units of the header that are not yet written.
HeaderLeft == Cardinality({i \in DOMAIN left : left[i][2] <= HeaderSize})

\* What one call of ::write or ::send may take: of the header or of the body,
\* never of both; SCTP's header in one piece.
Pieces == IF HeaderLeft = 0 THEN 1..Len(left)
          ELSE IF kind = "sctp" THEN {HeaderLeft}
          ELSE 1..HeaderLeft

\* What is written to a receiver that has closed is lost.
Write(k) ==
    /\ k \in Pieces
    /\ Len(wire) + k <= Capacity
    /\ wire' = IF ropen THEN wire \o SubSeq(left, 1, k) ELSE wire
    /\ left' = SubSeq(left, k + 1, Len(left))
    /\ returned' = IF k = Len(left) THEN Len(sizes) ELSE returned
    /\ UNCHANGED <<kind, sizes, wopen, reset, receiver>>

\* sent <= 0: the receiver has closed.  Its caller may call again.
SendFails ==
    /\ left # <<>> /\ ~ropen
    /\ left' = <<>>
    /\ UNCHANGED <<kind, sizes, returned, wopen, wire, reset, receiver>>

\* The sender closes, or dies in the middle of a frame; a reset takes what is
\* on its way with it.
SenderCloses ==
    /\ wopen
    /\ wopen' = FALSE
    /\ left' = <<>>
    /\ \/ UNCHANGED <<wire, reset>>
       \/ wire' = <<>> /\ reset' = TRUE
    /\ UNCHANGED <<kind, sizes, returned, receiver>>

-----------------------------------------------------------------------------
(* recieve, and the session that calls it again until it returns 0 or less *)

\* ntohl of the bytes in the header's place: the length of the frame when they
\* are its header, any number otherwise.
LengthsIn(units) ==
    IF \E id \in DOMAIN sizes : units = [k \in 1..HeaderSize |-> <<id, k>>]
    THEN {Nonce + sizes[units[1][1]]}
    ELSE 0..(Limit + 1)

\* Mutants: a frame of the greatest length is refused; every length is taken.
TooLong_OffByOne(length) == length >= Limit
TooLong_Never(length)    == FALSE

TooLong(length) == length > Limit

\* decrypt of a body.
Decrypted(units) ==
    IF \E id \in DOMAIN sizes :
          units = [k \in 1..(Nonce + sizes[id]) |-> <<id, HeaderSize + k>>]
    THEN [id |-> units[1][1], size |-> Len(units) - Nonce]
    ELSE Garbage

EndSession == /\ ropen' = FALSE
              /\ wire' = <<>> /\ got' = <<>> /\ frame_len' = Unknown
              /\ UNCHANGED delivered

ReadHeader(k) ==
    /\ ropen /\ frame_len = Unknown
    /\ k \in 1..(HeaderSize - Len(got)) /\ k <= Len(wire)
    /\ LET header == got \o SubSeq(wire, 1, k)
       IN  IF Len(header) < HeaderSize
           THEN /\ got' = header
                /\ wire' = SubSeq(wire, k + 1, Len(wire))
                /\ UNCHANGED <<ropen, frame_len, delivered>>
           ELSE \E length \in LengthsIn(header) :
                   IF TooLong(length) \/ length < Nonce THEN EndSession
                   ELSE /\ frame_len' = length /\ got' = <<>>
                        /\ wire' = SubSeq(wire, k + 1, Len(wire))
                        /\ UNCHANGED <<ropen, delivered>>
    /\ UNCHANGED <<sender, reset>>

\* Mutant: one read is taken for the whole body.
IsWhole_FirstRead(body) == TRUE

IsWhole(body) == Len(body) = frame_len

\* A body of the nonce alone is an empty message: recieve returns 0.
ReadBody(k) ==
    /\ ropen /\ frame_len # Unknown
    /\ k \in 1..(frame_len - Len(got)) /\ k <= Len(wire)
    /\ LET body == got \o SubSeq(wire, 1, k)
       IN  IF ~IsWhole(body)
           THEN /\ got' = body
                /\ wire' = SubSeq(wire, k + 1, Len(wire))
                /\ UNCHANGED <<ropen, frame_len, delivered>>
           ELSE IF Len(body) <= Nonce THEN EndSession
           ELSE /\ delivered' = Append(delivered, Decrypted(body))
                /\ got' = <<>> /\ frame_len' = Unknown
                /\ wire' = SubSeq(wire, k + 1, Len(wire))
                /\ UNCHANGED ropen
    /\ UNCHANGED <<sender, reset>>

\* Mutant: that the sender has closed is noticed before what it wrote is read.
ReadEnds_OnHangup ==
    /\ ropen /\ ~wopen
    /\ EndSession
    /\ UNCHANGED <<sender, reset>>

\* recvd <= 0, wherever in a frame.
ReadEnds ==
    /\ ropen /\ ~wopen /\ wire = <<>>
    /\ EndSession
    /\ UNCHANGED <<sender, reset>>

-----------------------------------------------------------------------------

Receive == \/ \E k \in 1..Capacity : ReadHeader(k) \/ ReadBody(k)
           \/ ReadEnds

Next == \/ \E size \in Sizes : CallSend(size)
        \/ \E k \in 1..Capacity : Write(k)
        \/ SendFails \/ SenderCloses \/ Receive

\* The session thread is scheduled, and between two calls of recieve it does
\* nothing that waits for the client.
Spec == Init /\ [][Next]_vars /\ WF_vars(Receive)

-----------------------------------------------------------------------------
(* Properties. *)

\* However writes and reads are cut up, wherever a program dies in a frame,
\* recieve returns exactly the messages that were sent, whole and in order:
\* the direction of the connection is a channel of messages.
Channel == INSTANCE MessageChannel WITH
    sent   <- [i \in DOMAIN sizes |-> [id |-> i, size |-> sizes[i]]],
    closed <- ~ropen

ImplementsChannel == Channel!Spec

\* Every message up to the i-th is neither empty nor too long for recieve.
Deliverable(i) == \A j \in 1..i : sizes[j] > 0 /\ Nonce + sizes[j] <= Limit

\* The last unit of the i-th frame is still to be read.
OnItsWay(i) == \E n \in DOMAIN wire : wire[n] = <<i, HeaderSize + Nonce + sizes[i]>>

\* What send has reported as sent is not lost, also when the sender has closed
\* or died since: it is delivered, or its end is still before a receiver that
\* reads on, unless the connection is reset.
ReportedIsKept ==
    \A i \in 1..returned :
        Deliverable(i) /\ ~reset => i <= Len(delivered) \/ (ropen /\ OnItsWay(i))

\* A message that send has reported as sent is received, even by a receiver
\* that is behind when the sender closes, unless the connection is reset.
SentIsReceived ==
    \A i \in 1..MaxMsgs : (returned >= i /\ Deliverable(i)) ~> (Len(delivered) >= i \/ reset)
=============================================================================
