--------------------------- MODULE MessageChannel ---------------------------
(***************************************************************************)
(* What send and recieve of a connection-oriented transport promise: one   *)
(* direction of a connection hands over whole messages, in the order they  *)
(* were sent, each at most once, until the receiver closes it.             *)
(***************************************************************************)
EXTENDS Naturals, Sequences

CONSTANT Message

VARIABLES
    sent,       \* the messages send was called with
    delivered,  \* the messages recieve has returned
    closed      \* the receiver is done

vars == <<sent, delivered, closed>>

Init == sent = <<>> /\ delivered = <<>> /\ closed = FALSE

Send == /\ \E m \in Message : sent' = Append(sent, m)
        /\ UNCHANGED <<delivered, closed>>

Deliver == /\ ~closed
           /\ Len(delivered) < Len(sent)
           /\ delivered' = Append(delivered, sent[Len(delivered) + 1])
           /\ UNCHANGED <<sent, closed>>

Close == closed' = TRUE /\ UNCHANGED <<sent, delivered>>

Next == Send \/ Deliver \/ Close

Spec == Init /\ [][Next]_vars
=============================================================================
