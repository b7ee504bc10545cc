----------------------------- MODULE UdpExchange -----------------------------
(***************************************************************************)
(* The UDP variant: the single loop of start_transmission that answers     *)
(* datagrams (server.cpp:131-190) and the client program over              *)
(* UDPClientTransport, whose recieve does not wait.  There is no session:  *)
(* the client alone decides that it is logged in, and the server answers   *)
(* a chat message from anybody.                                            *)
(*                                                                         *)
(* c names a client's socket; a client started again is another socket.    *)
(* nr numbers its datagrams.  The code has no such number: it tells apart  *)
(* here what the code cannot.                                              *)
(***************************************************************************)
EXTENDS UserDatabase

CONSTANTS
    Srv,        \* the server process
    Loop,       \* its only thread
    Clients,
    NetFaults,  \* subset of AllNetFaults
    MaxSent,    \* bound on the datagrams a client sends
    MaxReceived \* bound on the datagrams a client receives

AllNetFaults == {"lose", "duplicate"}

ASSUME LoopAssumption      == Procs = {Srv} /\ Threads = {Loop}
ASSUME NetFaultsAssumption == NetFaults \subseteq AllNetFaults
ASSUME MaxAssumption       == MaxSent \in Nat /\ MaxReceived \in Nat

VARIABLES
    client,     \* the client program and the counters of its transport
    requests,   \* datagrams on their way to the server
    replies,    \* datagrams on their way to the clients, or in their sockets
    loop,       \* the locals of the server's loop
    earned,     \* history: the clients whose LOGIN the server accepted
    told,       \* history: the users whose REG_SUCCESS a client received
    doubled     \* history: the clients of whose datagrams one was duplicated

udpVars == <<client, requests, replies, loop, earned, told, doubled>>
vars    == <<dbVars, udpVars>>

Chat     == [kind |-> "chat"]
Commands == [kind : {"LOGIN", "REGISTER"}, user : Creds]
Kinds    == {"AUTH_SUCCESS", "AUTH_FAIL", "REG_SUCCESS", "REG_FAIL", "ACK"}

Datagrams == [from : Clients, nr : 1..MaxSent, msg : Commands \cup {Chat}]
Replies   == {[to |-> d.from, nr |-> d.nr, msg |-> d.msg, kind |-> k] :
                 d \in Datagrams, k \in Kinds}
Receiving == [pc |-> "receiving"]

\* Type invariant: each datagram is of a known client, the loop serves one at
\* a time, and the counters stay within their bounds.
UdpTypeOK ==
    /\ TypeOK
    /\ client \in [Clients ->
          [at : {"new", "auth", "authWaits", "chat", "chatWaits", "gone"},
           total_sent_requests : 0..MaxSent,
           total_received_responses : 0..MaxReceived]]
    /\ requests \subseteq Datagrams
    /\ replies \subseteq Replies
    /\ loop \in {Receiving} \cup [pc : {"dispatching", "calling"}, of : Datagrams]
                            \cup [pc : {"sending"}, of : Datagrams, response : Kinds]
    /\ earned \subseteq Clients
    /\ told \subseteq Creds
    /\ doubled \subseteq Clients

UdpInit ==
    /\ Init
    /\ client = [c \in Clients |-> [at |-> "new", total_sent_requests |-> 0,
                                    total_received_responses |-> 0]]
    /\ requests = {} /\ replies = {}
    /\ loop = Receiving
    /\ earned = {} /\ told = {} /\ doubled = {}

-----------------------------------------------------------------------------
(* The client. *)

\* connect() on a UDP socket reaches nobody: the client starts without server.
Start(c) ==
    /\ client[c].at = "new"
    /\ client' = [client EXCEPT ![c].at = "auth"]
    /\ UNCHANGED <<dbVars, requests, replies, loop, earned, told, doubled>>

\* Mutant: the attempt is not counted.
Sends_Uncounted(c, msg, next) ==
    /\ client' = [client EXCEPT ![c].at = next]
    /\ requests' = requests \cup
           {[from |-> c, nr |-> client[c].total_sent_requests + 1, msg |-> msg]}
    /\ UNCHANGED <<dbVars, replies, loop, earned, told, doubled>>

\* send() counts the attempt before it makes it.
Sends(c, msg, next) ==
    /\ client[c].total_sent_requests < MaxSent
    /\ client' = [client EXCEPT ![c].at = next, ![c].total_sent_requests = @ + 1]
    /\ requests' = requests \cup
           {[from |-> c, nr |-> client[c].total_sent_requests + 1, msg |-> msg]}
    /\ UNCHANGED <<dbVars, replies, loop, earned, told, doubled>>

AskAuth(c, msg) == client[c].at = "auth" /\ Sends(c, msg, "authWaits")

\* A chat line that begins with LOGIN or REGISTER is a command to the server.
Say(c, msg)     == client[c].at = "chat" /\ Sends(c, msg, "chatWaits")

\* send() returns -1, say for a server known to be down: the login loop takes
\* it for success, the chat loop ends the program.
SendFails(c) ==
    /\ client[c].at \in {"auth", "chat"}
    /\ phase[Srv] # "serving"
    /\ client[c].total_sent_requests < MaxSent
    /\ client' = [client EXCEPT ![c].at = IF @ = "auth" THEN "authWaits" ELSE "gone",
                                ![c].total_sent_requests = @ + 1]
    /\ UNCHANGED <<dbVars, requests, replies, loop, earned, told, doubled>>

\* Mutant: any reply ends the login loop.
LetsIn_Any(reply) == TRUE

\* resp.find("AUTH_SUCCESS") != string::npos
LetsIn(reply) == reply.kind = "AUTH_SUCCESS"

\* Whatever reply is first, to whichever request, is the answer.
Receives(c) == \E reply \in replies :
    /\ client[c].at \in {"authWaits", "chatWaits"}
    /\ reply.to = c
    /\ client[c].total_received_responses < MaxReceived
    /\ client' = [client EXCEPT
           ![c].at = IF @ = "chatWaits" \/ LetsIn(reply)
                     THEN "chat" ELSE "auth",
           ![c].total_received_responses = @ + 1]
    /\ \/ replies' = replies \ {reply} /\ UNCHANGED doubled
       \/ "duplicate" \in NetFaults /\ UNCHANGED replies /\ doubled' = doubled \cup {c}
    /\ told' = IF reply.kind = "REG_SUCCESS" THEN told \cup {reply.msg.user} ELSE told
    /\ UNCHANGED <<dbVars, requests, loop, earned>>

\* Mutant: the -1 is added to the count.
ReceivesNothing_Counted(c) ==
    /\ client[c].at \in {"authWaits", "chatWaits"}
    /\ client' = [client EXCEPT ![c].at = IF @ = "chatWaits" THEN "chat" ELSE "auth",
                                ![c].total_received_responses = @ - 1]
    /\ UNCHANGED <<dbVars, requests, replies, loop, earned, told, doubled>>

\* recv with MSG_DONTWAIT: nothing there yet.
ReceivesNothing(c) ==
    /\ client[c].at \in {"authWaits", "chatWaits"}
    /\ client' = [client EXCEPT ![c].at = IF @ = "chatWaits" THEN "chat" ELSE "auth"]
    /\ UNCHANGED <<dbVars, requests, replies, loop, earned, told, doubled>>

\* Exit, q, an empty line (sent returns 0), or a kill.
Leave(c) ==
    /\ client[c].at \notin {"new", "gone"}
    /\ client' = [client EXCEPT ![c].at = "gone"]
    /\ replies' = {reply \in replies : reply.to # c}
    /\ UNCHANGED <<dbVars, requests, loop, earned, told, doubled>>

\* The network, or a server that is not there, drops a datagram.
Lose ==
    /\ \/ /\ "lose" \in NetFaults \/ phase[Srv] # "serving"
          /\ \E d \in requests : requests' = requests \ {d}
          /\ UNCHANGED replies
       \/ /\ "lose" \in NetFaults
          /\ \E reply \in replies : replies' = replies \ {reply}
          /\ UNCHANGED requests
    /\ UNCHANGED <<dbVars, client, loop, earned, told, doubled>>

-----------------------------------------------------------------------------
(* The server's loop. *)

ReceiveFrom == \E d \in requests :
    /\ phase[Srv] = "serving"
    /\ loop = Receiving
    /\ loop' = [pc |-> "dispatching", of |-> d]
    /\ \/ requests' = requests \ {d} /\ UNCHANGED doubled
       \/ "duplicate" \in NetFaults /\ UNCHANGED requests /\ doubled' = doubled \cup {d.from}
    /\ UNCHANGED <<dbVars, client, replies, earned, told>>

\* Unlike a TCP session, the loop hands an empty password to registerUser.
CallDatabase ==
    /\ loop.pc = "dispatching"
    /\ LET msg == loop.of.msg
       IN  \/ msg.kind = "LOGIN" /\ Authenticate(Srv, Loop, msg.user)
           \/ /\ msg.kind = "REGISTER"
              /\ RegisterExisting(Srv, Loop, msg.user) \/ RegisterNew(Srv, Loop, msg.user)
    /\ loop' = [loop EXCEPT !.pc = "calling"]
    /\ UNCHANGED <<client, requests, replies, earned, told, doubled>>

DatabaseStep ==
    /\ Insert(Srv, Loop) \/ AppendLine(Srv, Loop)
    /\ UNCHANGED udpVars

DatabaseReturns ==
    /\ loop.pc = "calling"
    /\ TakeResult(Srv, Loop)
    /\ LET result == call[Srv][Loop]
           in     == result.at = "authenticated" /\ result.ok
       IN  /\ loop' = [pc |-> "sending", of |-> loop.of, response |->
                  IF result.at = "authenticated"
                  THEN IF result.ok THEN "AUTH_SUCCESS" ELSE "AUTH_FAIL"
                  ELSE IF result.ok THEN "REG_SUCCESS" ELSE "REG_FAIL"]
           /\ earned' = IF in THEN earned \cup {loop.of.from} ELSE earned
    /\ UNCHANGED <<client, requests, replies, told, doubled>>

AnswerChat ==
    /\ loop.pc = "dispatching"
    /\ loop.of.msg = Chat
    /\ loop' = [pc |-> "sending", of |-> loop.of, response |-> "ACK"]
    /\ UNCHANGED <<dbVars, client, requests, replies, earned, told, doubled>>

\* A reply to a socket that is closed reaches nobody.
SendTo ==
    /\ loop.pc = "sending"
    /\ loop' = Receiving
    /\ replies' = IF client[loop.of.from].at = "gone" THEN replies
                  ELSE replies \cup {[to |-> loop.of.from, nr |-> loop.of.nr,
                                      msg |-> loop.of.msg, kind |-> loop.response]}
    /\ UNCHANGED <<dbVars, client, requests, earned, told, doubled>>

Launch ==
    /\ \/ Construct(Srv) \/ BindSucceeds(Srv) \/ BindFails(Srv)
       \/ SaveTruncates(Srv) \/ SaveLine(Srv) \/ SaveCloses(Srv)
       \/ SaveCannotOpen(Srv)
    /\ UNCHANGED udpVars

ProcessEnds ==
    /\ Kill(Srv)
    /\ loop' = Receiving
    /\ UNCHANGED <<client, requests, replies, earned, told, doubled>>

-----------------------------------------------------------------------------

ServerStep == \/ ReceiveFrom \/ CallDatabase \/ DatabaseStep
              \/ DatabaseReturns \/ AnswerChat \/ SendTo

ClientStep(c) == \/ Start(c) \/ SendFails(c) \/ Leave(c)
                 \/ Receives(c) \/ ReceivesNothing(c)
                 \/ \E msg \in Commands : AskAuth(c, msg)
                 \/ \E msg \in Commands \cup {Chat} : Say(c, msg)

UdpNext == \/ Launch \/ ProcessEnds \/ Lose \/ ServerStep
           \/ \E c \in Clients : ClientStep(c)

UdpSpec == UdpInit /\ [][UdpNext]_vars

-----------------------------------------------------------------------------
(* Properties. *)

InHand(c) == IF loop # Receiving /\ loop.of.from = c THEN 1 ELSE 0

\* Every answer a client counts is the answer to a datagram it counted: what
\* it has received and what may still arrive never exceed what it sent, so
\* packet_loss = 1 - received / sent stays between 0 and 1, for a
\* client none of whose datagrams the network has duplicated.
AnswersDoNotExceedRequests ==
    \A c \in Clients \ doubled :
        client[c].total_received_responses
          + Cardinality({d \in requests : d.from = c})
          + InHand(c)
          + Cardinality({reply \in replies : reply.to = c})
        <= client[c].total_sent_requests

\* A client is past its login prompt only if the server has accepted a LOGIN
\* of that very client, whatever the network did to the datagrams.
LoginIsEarned ==
    \A c \in Clients : client[c].at \in {"chat", "chatWaits"} => c \in earned

\* The account of a client that received REG_SUCCESS outlives the server.
ToldIsDurable == \A u \in told : Matches(OnRecord, u)

\* A password the server confirms is the one its name was registered with,
\* for retried, duplicated and reordered registrations too.
OnePasswordEach ==
    \A r, s \in replies : /\ r.kind = "AUTH_SUCCESS"
                          /\ s.kind = "AUTH_SUCCESS"
                          /\ r.msg.user.username = s.msg.user.username
                          => r.msg.user = s.msg.user

\* recieve waits for the answer (UDPClientTransport.cpp:80): over a network
\* that loses nothing, the answer a client takes is to what it last asked.
TakesItsAnswer ==
    [][\A c \in Clients :
          client'[c].total_received_responses > client[c].total_received_responses =>
              \E reply \in replies : /\ reply.to = c
                                     /\ reply.nr = client[c].total_sent_requests
                                     /\ reply \notin replies']_vars
=============================================================================
