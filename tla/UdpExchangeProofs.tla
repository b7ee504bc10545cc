-------------------------- MODULE UdpExchangeProofs --------------------------
(***************************************************************************)
(* Theorems about UdpExchange, for any number of clients and datagrams and *)
(* whatever the network loses or duplicates.                               *)
(***************************************************************************)
EXTENDS UdpExchange, UserDatabaseProofs

-----------------------------------------------------------------------------
(* Types, and the steps of the exchange as steps of the database. *)

ClientType == [at : {"new", "auth", "authWaits", "chat", "chatWaits", "gone"},
               total_sent_requests : 0..MaxSent,
               total_received_responses : 0..MaxReceived]
LoopType == {Receiving} \cup [pc : {"dispatching", "calling"}, of : Datagrams]
                        \cup [pc : {"sending"}, of : Datagrams, response : Kinds]

LEMMA UdpTypeIs ==
    UdpTypeOK <=> /\ TypeOK
                  /\ client \in [Clients -> ClientType]
                  /\ requests \subseteq Datagrams
                  /\ replies \subseteq Replies
                  /\ loop \in LoopType
                  /\ earned \subseteq Clients
                  /\ told \subseteq Creds
                  /\ doubled \subseteq Clients
BY DEF UdpTypeOK, ClientType, LoopType

LEMMA OnlyLoop == Srv \in Procs /\ Procs = {Srv} /\ Loop \in Threads /\ Threads = {Loop}
BY LoopAssumption

\* What the loop holds, by the place it is at.
LEMMA LoopShape ==
    ASSUME UdpTypeOK
    PROVE  /\ loop.pc \in {"receiving", "dispatching", "calling", "sending"}
           /\ loop.pc = "receiving" <=> loop = Receiving
           /\ loop.pc # "receiving" => loop.of \in Datagrams
           /\ loop.pc \in {"dispatching", "calling"} =>
                  loop \in [pc : {"dispatching", "calling"}, of : Datagrams]
           /\ loop.pc = "sending" =>
                  loop \in [pc : {"sending"}, of : Datagrams, response : Kinds]
<1>1. loop \in LoopType
  BY UdpTypeIs
<1> QED  BY <1>1 DEF LoopType, Receiving

LEMMA DatagramShape ==
    ASSUME NEW d \in Datagrams
    PROVE  /\ d.from \in Clients /\ d.nr \in 1..MaxSent
           /\ d.msg \in Commands \cup {Chat}
           /\ d.msg.kind \in {"LOGIN", "REGISTER"} <=> d.msg \in Commands
           /\ d.msg \in Commands => d.msg.user \in Creds
BY DEF Datagrams, Commands, Chat

\* A reply to the datagram a loop that is sending holds.
LEMMA ReplyTyped ==
    ASSUME NEW d \in Datagrams, NEW k \in Kinds
    PROVE  [to |-> d.from, nr |-> d.nr, msg |-> d.msg, kind |-> k] \in Replies
BY DEF Replies

LEMMA UdpStepsDatabase == UdpTypeOK /\ [UdpNext]_vars => [Next]_dbVars
<1> SUFFICES ASSUME UdpTypeOK, UdpNext, ~UNCHANGED dbVars PROVE Next
  BY DEF vars, dbVars
<1> USE OnlyLoop
<1>1. CASE Launch
  BY <1>1 DEF Launch, Next, Lifecycle
<1>2. CASE ProcessEnds
  BY <1>2 DEF ProcessEnds, Next, Lifecycle
<1>3. CASE CallDatabase
  <2>1. loop.of.msg \in Commands /\ loop.of.msg.user \in Creds
    BY <1>3, LoopShape, DatagramShape DEF CallDatabase
  <2> QED  BY <1>3, <2>1 DEF CallDatabase, Next, Calls
<1>4. CASE DatabaseStep \/ DatabaseReturns
  BY <1>4 DEF DatabaseStep, DatabaseReturns, Next, Calls
<1>5. ~Lose /\ ~ReceiveFrom /\ ~AnswerChat /\ ~SendTo
  BY DEF Lose, ReceiveFrom, AnswerChat, SendTo
<1>6. \A c \in Clients : ~ClientStep(c)
  BY DEF ClientStep, Start, SendFails, Leave, Receives, ReceivesNothing, AskAuth, Say, Sends
<1> QED  BY <1>1, <1>2, <1>3, <1>4, <1>5, <1>6 DEF UdpNext, ServerStep

\* The program of one client is at another place, with other counters.
Becomes(c, at, sent, received) ==
    client' = [client EXCEPT ![c] = [at |-> at, total_sent_requests |-> sent,
                                     total_received_responses |-> received]]

LEMMA ClientUpdates ==
    ASSUME UdpTypeOK, NEW c \in Clients
    PROVE  /\ \A x : client' = [client EXCEPT ![c].at = x] =>
                  Becomes(c, x, client[c].total_sent_requests,
                                client[c].total_received_responses)
           /\ \A x : client' = [client EXCEPT ![c].at = x, ![c].total_sent_requests = @ + 1] =>
                  Becomes(c, x, client[c].total_sent_requests + 1,
                                client[c].total_received_responses)
           /\ \A x : client' = [client EXCEPT ![c].at = x,
                                             ![c].total_received_responses = @ + 1] =>
                  Becomes(c, x, client[c].total_sent_requests,
                                client[c].total_received_responses + 1)
<1>1. client \in [Clients -> ClientType] /\ client[c] \in ClientType
  BY UdpTypeIs
<1>2. ASSUME NEW x, client' = [client EXCEPT ![c].at = x]
      PROVE  Becomes(c, x, client[c].total_sent_requests, client[c].total_received_responses)
  <2>1. [client[c] EXCEPT !.at = x] =
           [at |-> x, total_sent_requests |-> client[c].total_sent_requests,
            total_received_responses |-> client[c].total_received_responses]
    BY <1>1 DEF ClientType
  <2> QED  BY <1>2, <2>1 DEF Becomes
<1>3. ASSUME NEW x,
             client' = [client EXCEPT ![c].at = x, ![c].total_sent_requests = @ + 1]
      PROVE  Becomes(c, x, client[c].total_sent_requests + 1,
                        client[c].total_received_responses)
  <2>1. PICK d : d = [client[c] EXCEPT !.at = x]
    OBVIOUS
  <2>2. d = [at |-> x, total_sent_requests |-> client[c].total_sent_requests,
             total_received_responses |-> client[c].total_received_responses]
    BY <1>1, <2>1 DEF ClientType
  <2>3. [d EXCEPT !.total_sent_requests = @ + 1] =
           [at |-> x, total_sent_requests |-> client[c].total_sent_requests + 1,
            total_received_responses |-> client[c].total_received_responses]
    BY <2>2
  <2> QED  BY <1>1, <1>3, <2>1, <2>3 DEF Becomes
<1>4. ASSUME NEW x,
             client' = [client EXCEPT ![c].at = x, ![c].total_received_responses = @ + 1]
      PROVE  Becomes(c, x, client[c].total_sent_requests,
                        client[c].total_received_responses + 1)
  <2>1. PICK d : d = [client[c] EXCEPT !.at = x]
    OBVIOUS
  <2>2. d = [at |-> x, total_sent_requests |-> client[c].total_sent_requests,
             total_received_responses |-> client[c].total_received_responses]
    BY <1>1, <2>1 DEF ClientType
  <2>3. [d EXCEPT !.total_received_responses = @ + 1] =
           [at |-> x, total_sent_requests |-> client[c].total_sent_requests,
            total_received_responses |-> client[c].total_received_responses + 1]
    BY <2>2
  <2> QED  BY <1>1, <1>4, <2>1, <2>3 DEF Becomes
<1> QED  BY <1>2, <1>3, <1>4


LEMMA Becoming ==
    ASSUME UdpTypeOK, NEW c \in Clients, NEW at, NEW sent, NEW received,
           Becomes(c, at, sent, received)
    PROVE  /\ client'[c].at = at
           /\ client'[c].total_sent_requests = sent
           /\ client'[c].total_received_responses = received
           /\ \A e \in Clients : e # c => client'[e] = client[e]
           /\ [at |-> at, total_sent_requests |-> sent, total_received_responses |-> received]
                  \in ClientType => client' \in [Clients -> ClientType]
<1>1. client \in [Clients -> ClientType]
  BY UdpTypeIs
<1> QED  BY <1>1 DEF Becomes

\* What each step of a client does to its place and its counters.
LEMMA ClientMoves ==
    ASSUME UdpTypeOK, NEW c \in Clients
    PROVE  LET sent == client[c].total_sent_requests
               received == client[c].total_received_responses
           IN  /\ Start(c) => Becomes(c, "auth", sent, received)
               /\ \A msg, next : Sends(c, msg, next) => Becomes(c, next, sent + 1, received)
               /\ SendFails(c) =>
                      Becomes(c, IF client[c].at = "auth" THEN "authWaits" ELSE "gone",
                              sent + 1, received)
               /\ ReceivesNothing(c) =>
                      Becomes(c, IF client[c].at = "chatWaits" THEN "chat" ELSE "auth",
                              sent, received)
               /\ Leave(c) => Becomes(c, "gone", sent, received)
<1>1. client \in [Clients -> ClientType]
  BY UdpTypeIs
<1> DEFINE failed == IF client[c].at = "auth" THEN "authWaits" ELSE "gone"
           silent == IF client[c].at = "chatWaits" THEN "chat" ELSE "auth"
<1>2. Start(c) => client' = [client EXCEPT ![c].at = "auth"]
  BY DEF Start
<1>3. SendFails(c) => client' = [client EXCEPT ![c].at = failed,
                                               ![c].total_sent_requests = @ + 1]
  BY Zenon DEF SendFails
<1>4. ReceivesNothing(c) => client' = [client EXCEPT ![c].at = silent]
  BY Zenon DEF ReceivesNothing
<1>5. Leave(c) => client' = [client EXCEPT ![c].at = "gone"]
  BY DEF Leave
<1>6. \A msg, next : Sends(c, msg, next) =>
         client' = [client EXCEPT ![c].at = next, ![c].total_sent_requests = @ + 1]
  BY Zenon DEF Sends
<1> HIDE DEF failed, silent
<1>7. /\ SendFails(c) => Becomes(c, failed, client[c].total_sent_requests + 1,
                                 client[c].total_received_responses)
      /\ ReceivesNothing(c) => Becomes(c, silent, client[c].total_sent_requests,
                                       client[c].total_received_responses)
  BY <1>3, <1>4, ClientUpdates
<1>8. \A msg, next : Sends(c, msg, next) =>
         Becomes(c, next, client[c].total_sent_requests + 1,
                 client[c].total_received_responses)
  BY <1>6, ClientUpdates
<1>9. /\ Start(c) => Becomes(c, "auth", client[c].total_sent_requests,
                             client[c].total_received_responses)
      /\ Leave(c) => Becomes(c, "gone", client[c].total_sent_requests,
                             client[c].total_received_responses)
  BY <1>2, <1>5, ClientUpdates, Zenon
<1> QED  BY <1>7, <1>8, <1>9 DEF failed, silent

\* A reply is taken by the client it is for.
TakenReply(c, reply) ==
    /\ reply \in replies /\ reply.to = c
    /\ client[c].at \in {"authWaits", "chatWaits"}
    /\ client[c].total_received_responses < MaxReceived
    /\ Becomes(c, IF client[c].at = "chatWaits" \/ LetsIn(reply) THEN "chat" ELSE "auth",
               client[c].total_sent_requests, client[c].total_received_responses + 1)
    /\ \/ replies' = replies \ {reply} /\ doubled' = doubled
       \/ replies' = replies /\ doubled' = doubled \cup {c}
    /\ told' = IF reply.kind = "REG_SUCCESS" THEN told \cup {reply.msg.user} ELSE told
    /\ UNCHANGED <<dbVars, requests, loop, earned>>

LEMMA ReplyTaken ==
    ASSUME UdpTypeOK, NEW c \in Clients, Receives(c)
    PROVE  \E reply \in replies : TakenReply(c, reply)
<1>1. PICK reply \in replies :
        /\ client[c].at \in {"authWaits", "chatWaits"}
        /\ reply.to = c
        /\ client[c].total_received_responses < MaxReceived
        /\ client' = [client EXCEPT
               ![c].at = IF @ = "chatWaits" \/ LetsIn(reply) THEN "chat" ELSE "auth",
               ![c].total_received_responses = @ + 1]
        /\ \/ replies' = replies \ {reply} /\ UNCHANGED doubled
           \/ "duplicate" \in NetFaults /\ UNCHANGED replies /\ doubled' = doubled \cup {c}
        /\ told' = IF reply.kind = "REG_SUCCESS" THEN told \cup {reply.msg.user} ELSE told
        /\ UNCHANGED <<dbVars, requests, loop, earned>>
  BY Zenon DEF Receives
<1> DEFINE next == IF client[c].at = "chatWaits" \/ LetsIn(reply) THEN "chat" ELSE "auth"
<1>2. client' = [client EXCEPT ![c].at = next, ![c].total_received_responses = @ + 1]
  BY <1>1, Zenon
<1> HIDE DEF next
<1>3. Becomes(c, next, client[c].total_sent_requests, client[c].total_received_responses + 1)
  BY <1>2, ClientUpdates
<1> QED  BY <1>1, <1>3 DEF TakenReply, next

-----------------------------------------------------------------------------
(* The invariant, and its types. *)

\* The loop is inside the database only while it calls it, for the command in
\* its hands; what it is about to send is so.
LoopOK ==
    /\ loop.pc # "calling" => call[Srv][Loop] = Idle
    /\ loop.pc = "calling" =>
           /\ loop.of.msg \in Commands
           /\ call[Srv][Loop].at # "idle"
           /\ call[Srv][Loop].user = loop.of.msg.user
    /\ loop.pc = "sending" =>
           /\ loop.response = "AUTH_SUCCESS" =>
                  loop.of.from \in earned /\ loop.of.msg \in Commands
           /\ loop.response = "REG_SUCCESS" => loop.of.msg.user \in granted

\* So is every reply under way.
RepliesOK ==
    \A r \in replies :
        /\ r.kind = "AUTH_SUCCESS" => r.to \in earned /\ r.msg \in Commands
        /\ r.kind = "REG_SUCCESS" => r.msg.user \in granted

\* A confirmed password is the one on record.
ConfirmedOK ==
    FilesWork =>
        /\ loop.pc = "sending" /\ loop.response = "AUTH_SUCCESS" =>
               Matches(OnRecord, loop.of.msg.user)
        /\ \A r \in replies : r.kind = "AUTH_SUCCESS" => Matches(OnRecord, r.msg.user)

\* Whatever happens to the database, TypeOK is kept by its own steps.
LEMMA UdpTypeStep ==
    ASSUME UdpTypeOK, RepliesOK, TypeOK', [UdpNext]_vars
    PROVE  UdpTypeOK'
<1>1. /\ TypeOK /\ client \in [Clients -> ClientType] /\ requests \subseteq Datagrams
      /\ replies \subseteq Replies /\ loop \in LoopType /\ earned \subseteq Clients
      /\ told \subseteq Creds /\ doubled \subseteq Clients
  BY UdpTypeIs
<1>2. SUFFICES /\ client' \in [Clients -> ClientType] /\ requests' \subseteq Datagrams
               /\ replies' \subseteq Replies /\ loop' \in LoopType /\ earned' \subseteq Clients
               /\ told' \subseteq Creds /\ doubled' \subseteq Clients
  BY DEF UdpTypeOK, ClientType, LoopType
<1>3. CASE UNCHANGED udpVars
  BY <1>1, <1>3 DEF udpVars
<1>4. ASSUME NEW c \in Clients, Start(c) \/ ReceivesNothing(c) \/ Leave(c)
      PROVE  client' \in [Clients -> ClientType]
  <2> DEFINE silent == IF client[c].at = "chatWaits" THEN "chat" ELSE "auth"
  <2>1. PICK at \in {"auth", "chat", "gone"} :
           Becomes(c, at, client[c].total_sent_requests, client[c].total_received_responses)
    BY <1>4, ClientMoves
  <2>2. client[c] \in ClientType
    BY <1>1
  <2> QED  BY <2>1, <2>2, Becoming DEF ClientType
<1>5. ASSUME NEW c \in Clients, SendFails(c) PROVE client' \in [Clients -> ClientType]
  <2>1. PICK at \in {"authWaits", "gone"} :
           Becomes(c, at, client[c].total_sent_requests + 1,
                   client[c].total_received_responses)
    BY <1>5, ClientMoves
  <2>2. client[c] \in ClientType /\ client[c].total_sent_requests < MaxSent
    BY <1>1, <1>5 DEF SendFails
  <2> QED  BY <2>1, <2>2, Becoming, MaxAssumption DEF ClientType
<1>6. ASSUME NEW c \in Clients, NEW msg \in Commands \cup {Chat},
             NEW next \in {"authWaits", "chatWaits"}, Sends(c, msg, next)
      PROVE  client' \in [Clients -> ClientType] /\ requests' \subseteq Datagrams
  <2>1. Becomes(c, next, client[c].total_sent_requests + 1,
                client[c].total_received_responses)
    BY <1>6, ClientMoves
  <2>2. /\ client[c] \in ClientType /\ client[c].total_sent_requests < MaxSent
        /\ requests' = requests \cup
               {[from |-> c, nr |-> client[c].total_sent_requests + 1, msg |-> msg]}
    BY <1>1, <1>6 DEF Sends
  <2>3. client[c].total_sent_requests + 1 \in 1..MaxSent
    BY <2>2, MaxAssumption DEF ClientType
  <2>4. requests' \subseteq Datagrams
    BY <1>1, <2>2, <2>3 DEF Datagrams
  <2> QED  BY <2>1, <2>2, <2>3, <2>4, Becoming, MaxAssumption DEF ClientType
<1>7. ASSUME NEW c \in Clients, NEW reply \in replies, TakenReply(c, reply)
      PROVE  /\ client' \in [Clients -> ClientType] /\ replies' \subseteq Replies
             /\ told' \subseteq Creds /\ doubled' \subseteq Clients
  <2>1. PICK at \in {"auth", "chat"} :
           Becomes(c, at, client[c].total_sent_requests,
                   client[c].total_received_responses + 1)
    BY <1>7 DEF TakenReply
  <2>2. client[c] \in ClientType /\ client[c].total_received_responses < MaxReceived
    BY <1>1, <1>7 DEF TakenReply
  <2>3. client' \in [Clients -> ClientType]
    BY <2>1, <2>2, Becoming, MaxAssumption DEF ClientType
  <2>4. told' \subseteq Creds
    BY <1>1, <1>7 DEF TakenReply, RepliesOK, TypeOK
  <2> QED  BY <1>1, <1>7, <2>3, <2>4 DEF TakenReply
<1>8. ASSUME NEW c \in Clients, ClientStep(c)
      PROVE  /\ client' \in [Clients -> ClientType] /\ requests' \subseteq Datagrams
             /\ replies' \subseteq Replies /\ loop' \in LoopType /\ earned' \subseteq Clients
             /\ told' \subseteq Creds /\ doubled' \subseteq Clients
  <2>1. CASE Start(c) \/ ReceivesNothing(c) \/ Leave(c)
    BY <1>1, <1>4, <2>1 DEF Start, ReceivesNothing, Leave
  <2>2. CASE SendFails(c)
    BY <1>1, <1>5, <2>2 DEF SendFails
  <2>3. CASE (\E msg \in Commands : AskAuth(c, msg)) \/ (\E msg \in Commands \cup {Chat} : Say(c, msg))
    BY <1>1, <1>6, <2>3 DEF AskAuth, Say, Sends
  <2>4. CASE Receives(c)
    BY <1>1, <1>7, <2>4, ReplyTaken DEF TakenReply
  <2> QED  BY <1>8, <2>1, <2>2, <2>3, <2>4 DEF ClientStep
<1>9. CASE Lose
  BY <1>1, <1>9 DEF Lose
<1>10. CASE ReceiveFrom
  <2>1. PICK d \in requests :
           /\ loop' = [pc |-> "dispatching", of |-> d]
           /\ requests' \subseteq requests
           /\ doubled' \subseteq doubled \cup {d.from}
           /\ UNCHANGED <<dbVars, client, replies, earned, told>>
    BY <1>10 DEF ReceiveFrom
  <2>2. d \in Datagrams /\ d.from \in Clients
    BY <1>1, DatagramShape
  <2> QED  BY <1>1, <2>1, <2>2 DEF LoopType
<1>11. CASE CallDatabase
  <2>1. loop \in [pc : {"dispatching", "calling"}, of : Datagrams]
    BY <1>11, LoopShape DEF CallDatabase
  <2>2. loop' \in LoopType
    BY <1>11, <2>1 DEF CallDatabase, LoopType
  <2> QED  BY <1>1, <1>11, <2>2 DEF CallDatabase
<1>12. CASE DatabaseReturns
  <2>1. loop.of \in Datagrams /\ loop.of.from \in Clients
    BY <1>12, LoopShape, DatagramShape DEF DatabaseReturns
  <2>2. PICK k \in Kinds : loop' = [pc |-> "sending", of |-> loop.of, response |-> k]
    BY <1>12 DEF DatabaseReturns, Kinds
  <2> QED  BY <1>1, <1>12, <2>1, <2>2 DEF DatabaseReturns, LoopType
<1>13. CASE AnswerChat
  <2>1. loop.of \in Datagrams
    BY <1>13, LoopShape DEF AnswerChat
  <2> QED  BY <1>1, <1>13, <2>1 DEF AnswerChat, LoopType, Kinds
<1>14. CASE SendTo
  <2>1. loop.of \in Datagrams /\ loop.response \in Kinds
    BY <1>14, LoopShape DEF SendTo
  <2>2. [to |-> loop.of.from, nr |-> loop.of.nr, msg |-> loop.of.msg, kind |-> loop.response]
            \in Replies
    BY <2>1, ReplyTyped
  <2> QED  BY <1>1, <1>14, <2>2 DEF SendTo, LoopType
<1>15. CASE Launch \/ DatabaseStep \/ UNCHANGED vars
  BY <1>3, <1>15 DEF Launch, DatabaseStep, vars
<1>16. CASE ProcessEnds
  BY <1>1, <1>16 DEF ProcessEnds, LoopType
<1> QED  BY <1>8, <1>9, <1>10, <1>11, <1>12, <1>13, <1>14, <1>15, <1>16
         DEF UdpNext, ServerStep

-----------------------------------------------------------------------------
(* What the loop holds, what is under way, and who may be logged in. *)

Promises == LoopOK /\ RepliesOK /\ told \subseteq granted /\ LoginIsEarned

\* The loop's own call: what a step of the database makes of it.
LEMMA LoopCalls ==
    ASSUME UdpTypeOK, LoopOK
    PROVE  /\ CallDatabase =>
                  /\ loop.of.msg \in Commands
                  /\ call'[Srv][Loop].at # "idle"
                  /\ call'[Srv][Loop].user = loop.of.msg.user
                  /\ granted' = granted
           /\ DatabaseStep =>
                  /\ loop.pc = "calling"
                  /\ call'[Srv][Loop].at # "idle"
                  /\ call'[Srv][Loop].user = call[Srv][Loop].user
                  /\ granted \subseteq granted'
           /\ DatabaseReturns =>
                  /\ call'[Srv][Loop] = Idle
                  /\ call[Srv][Loop] \in Returned
                  /\ granted' = granted
<1> USE OnlyLoop
<1>1. TypeOK
  BY UdpTypeIs
<1>2. CallDatabase => /\ loop.of.msg \in Commands
                      /\ call'[Srv][Loop].at # "idle"
                      /\ call'[Srv][Loop].user = loop.of.msg.user
                      /\ granted' = granted
  <2> SUFFICES ASSUME CallDatabase
               PROVE  /\ loop.of.msg \in Commands
                      /\ call'[Srv][Loop].at # "idle"
                      /\ call'[Srv][Loop].user = loop.of.msg.user
                      /\ granted' = granted
    OBVIOUS
  <2>1. loop.of.msg \in Commands
    BY LoopShape, DatagramShape DEF CallDatabase
  <2>2. \/ Authenticate(Srv, Loop, loop.of.msg.user)
        \/ RegisterExisting(Srv, Loop, loop.of.msg.user)
        \/ RegisterNew(Srv, Loop, loop.of.msg.user)
    BY DEF CallDatabase
  <2> QED  BY <1>1, <2>1, <2>2
           DEF Authenticate, RegisterExisting, RegisterNew, TypeOK
<1>3. DatabaseStep => /\ loop.pc = "calling"
                      /\ call'[Srv][Loop].at # "idle"
                      /\ call'[Srv][Loop].user = call[Srv][Loop].user
                      /\ granted \subseteq granted'
  <2> SUFFICES ASSUME DatabaseStep
               PROVE  /\ loop.pc = "calling"
                      /\ call'[Srv][Loop].at # "idle"
                      /\ call'[Srv][Loop].user = call[Srv][Loop].user
                      /\ granted \subseteq granted'
    OBVIOUS
  <2>1. call[Srv][Loop].at \in {"inserting", "appending"} /\ call[Srv][Loop] \in Busy
    BY <1>1, CallShape DEF DatabaseStep, Insert, AppendLine
  <2>2. loop.pc = "calling"
    BY <2>1 DEF LoopOK, Idle
  <2>3. CASE Insert(Srv, Loop)
    BY <1>1, <2>1, <2>2, <2>3 DEF Insert, Busy, TypeOK
  <2>4. CASE AppendLine(Srv, Loop)
    BY <1>1, <2>1, <2>2, <2>4 DEF AppendLine, TypeOK
  <2> QED  BY <2>3, <2>4 DEF DatabaseStep
<1>4. DatabaseReturns => /\ call'[Srv][Loop] = Idle
                         /\ call[Srv][Loop] \in Returned
                         /\ granted' = granted
  BY <1>1, CallShape DEF DatabaseReturns, TakeResult, TypeOK
<1> QED  BY <1>2, <1>3, <1>4

LEMMA ClientPromises ==
    ASSUME UdpTypeOK, Promises, NEW c \in Clients, ClientStep(c)
    PROVE  Promises'
<1>1. UNCHANGED dbVars /\ loop' = loop /\ earned' = earned
  BY DEF ClientStep, Start, SendFails, Leave, Receives, ReceivesNothing, AskAuth, Say, Sends
<1>2. LoopOK' /\ granted' = granted
  BY <1>1 DEF Promises, LoopOK, dbVars
<1>3. replies' \subseteq replies
  BY DEF ClientStep, Start, SendFails, Leave, Receives, ReceivesNothing, AskAuth, Say, Sends
<1>4. RepliesOK'
  BY <1>1, <1>2, <1>3 DEF Promises, RepliesOK
<1>5. CASE Receives(c)
  <2>1. PICK reply \in replies : TakenReply(c, reply)
    BY <1>5, ReplyTaken
  <2>2. told' \subseteq granted'
    BY <1>2, <2>1 DEF TakenReply, Promises, RepliesOK
  <2>3. /\ \A e \in Clients : e # c => client'[e] = client[e]
        /\ client'[c].at = "chat" => client[c].at = "chatWaits" \/ LetsIn(reply)
        /\ client'[c].at # "chatWaits"
    <3> DEFINE next == IF client[c].at = "chatWaits" \/ LetsIn(reply) THEN "chat" ELSE "auth"
    <3>1. Becomes(c, next, client[c].total_sent_requests,
                  client[c].total_received_responses + 1)
      BY <2>1 DEF TakenReply
    <3> HIDE DEF next
    <3>2. client'[c].at = next /\ \A e \in Clients : e # c => client'[e] = client[e]
      BY <3>1, Becoming
    <3> QED  BY <3>2 DEF next
  <2>4. LetsIn(reply) => c \in earned
    BY <2>1 DEF LetsIn, TakenReply, Promises, RepliesOK
  <2>5. LoginIsEarned'
    BY <1>1, <2>3, <2>4 DEF Promises, LoginIsEarned
  <2> QED  BY <1>2, <1>4, <2>2, <2>5 DEF Promises
<1>6. CASE ~Receives(c)
  <2>1. told' = told
    BY <1>6 DEF ClientStep, Start, SendFails, Leave, ReceivesNothing, AskAuth, Say, Sends
  <2>2. PICK at, sent, received :
           /\ Becomes(c, at, sent, received)
           /\ at \in {"chat", "chatWaits"} => client[c].at \in {"chat", "chatWaits"}
    <3>1. Start(c) => Becomes(c, "auth", client[c].total_sent_requests,
                              client[c].total_received_responses)
      BY ClientMoves, Zenon
    <3>2. CASE SendFails(c)
      BY <3>2, ClientMoves
    <3>3. Leave(c) => Becomes(c, "gone", client[c].total_sent_requests,
                              client[c].total_received_responses)
      BY ClientMoves, Zenon
    <3>4. CASE ReceivesNothing(c)
      <4>1. \/ Becomes(c, "chat", client[c].total_sent_requests,
                       client[c].total_received_responses)
               /\ client[c].at = "chatWaits"
            \/ Becomes(c, "auth", client[c].total_sent_requests,
                       client[c].total_received_responses)
        BY <3>4, ClientMoves
      <4> QED  BY <4>1
    <3>5. ASSUME NEW msg, AskAuth(c, msg)
          PROVE  Becomes(c, "authWaits", client[c].total_sent_requests + 1,
                         client[c].total_received_responses)
      BY <3>5, ClientMoves, Zenon DEF AskAuth
    <3>6. ASSUME NEW msg, Say(c, msg)
          PROVE  Becomes(c, "chatWaits", client[c].total_sent_requests + 1,
                         client[c].total_received_responses)
                 /\ client[c].at = "chat"
      BY <3>6, ClientMoves, Zenon DEF Say
    <3> QED  BY <1>6, <3>1, <3>2, <3>3, <3>4, <3>5, <3>6 DEF ClientStep
  <2>3. /\ client'[c].at = at
        /\ \A e \in Clients : e # c => client'[e] = client[e]
    BY <2>2, Becoming
  <2>4. LoginIsEarned'
    BY <1>1, <2>2, <2>3 DEF Promises, LoginIsEarned
  <2> QED  BY <1>2, <1>4, <2>1, <2>4 DEF Promises
<1> QED  BY <1>5, <1>6

LEMMA PromisesStep ==
    ASSUME UdpTypeOK, GrantedOK, Promises, [UdpNext]_vars
    PROVE  Promises'
<1> USE OnlyLoop
<1>1. CASE Lose \/ UNCHANGED vars
  <2>1. UNCHANGED <<dbVars, client, loop, earned, told>> /\ replies' \subseteq replies
    BY <1>1 DEF Lose, vars, udpVars
  <2> QED  BY <2>1 DEF Promises, LoopOK, RepliesOK, LoginIsEarned, dbVars
<1>2. CASE ReceiveFrom
  BY <1>2 DEF ReceiveFrom, Receiving, dbVars, Promises, LoopOK, RepliesOK, LoginIsEarned
<1>3. CASE CallDatabase
  <2>1. loop \in [pc : {"dispatching", "calling"}, of : Datagrams]
    BY <1>3, LoopShape DEF CallDatabase
  <2>2. loop'.pc = "calling" /\ loop'.of = loop.of
    BY <1>3, <2>1 DEF CallDatabase
  <2>3. LoopOK'
    BY <1>3, <2>2, LoopCalls DEF Promises, LoopOK
  <2> QED  BY <1>3, <2>3, LoopCalls
           DEF CallDatabase, Promises, RepliesOK, LoginIsEarned
<1>4. CASE DatabaseStep
  <2>1. LoopOK'
    BY <1>4, LoopCalls DEF DatabaseStep, udpVars, Promises, LoopOK
  <2> QED  BY <1>4, <2>1, LoopCalls DEF DatabaseStep, udpVars, Promises, RepliesOK, LoginIsEarned
<1>5. CASE DatabaseReturns
  <2> DEFINE result == call[Srv][Loop]
  <2>1. /\ result \in Returned /\ call'[Srv][Loop] = Idle /\ granted' = granted
        /\ result.user = loop.of.msg.user /\ loop.of.msg \in Commands
        /\ result.at = "registered" /\ result.ok => result.user \in granted
    BY <1>5, LoopCalls DEF DatabaseReturns, Promises, LoopOK, GrantedOK
  <2>2. /\ loop'.pc = "sending" /\ loop'.of = loop.of
        /\ loop'.response = "AUTH_SUCCESS" => loop.of.from \in earned'
        /\ loop'.response = "REG_SUCCESS" => result.at = "registered" /\ result.ok
        /\ earned \subseteq earned'
        /\ client' = client /\ replies' = replies /\ told' = told
    BY <1>5, <2>1 DEF DatabaseReturns, Returned
  <2>3. LoopOK'
    BY <2>1, <2>2 DEF LoopOK
  <2> QED  BY <2>1, <2>2, <2>3 DEF Promises, RepliesOK, LoginIsEarned
<1>6. CASE AnswerChat
  BY <1>6 DEF AnswerChat, dbVars, Promises, LoopOK, RepliesOK, LoginIsEarned
<1>7. CASE SendTo
  <2>1. LoopOK' /\ granted' = granted /\ client' = client /\ earned' = earned /\ told' = told
    BY <1>7 DEF SendTo, Receiving, dbVars, Promises, LoopOK
  <2>2. RepliesOK'
    BY <1>7, <2>1 DEF SendTo, Promises, LoopOK, RepliesOK
  <2> QED  BY <2>1, <2>2 DEF Promises, LoginIsEarned
<1>8. CASE Launch
  <2>1. UNCHANGED udpVars /\ call' = call /\ granted' = granted
    BY <1>8 DEF Launch, Construct, BindSucceeds, BindFails, SaveTruncates, SaveLine, SaveCloses,
                SaveCannotOpen
  <2> QED  BY <2>1 DEF udpVars, Promises, LoopOK, RepliesOK, LoginIsEarned
<1>9. CASE ProcessEnds
  <2>1. call'[Srv][Loop] = Idle /\ granted' = granted
    BY <1>9, UdpTypeIs DEF ProcessEnds, Kill, TypeOK
  <2> QED  BY <1>9, <2>1
           DEF ProcessEnds, Receiving, Promises, LoopOK, RepliesOK, LoginIsEarned
<1> QED  BY <1>1, <1>2, <1>3, <1>4, <1>5, <1>6, <1>7, <1>8, <1>9, ClientPromises
         DEF UdpNext, ServerStep

-----------------------------------------------------------------------------
(* Counting what is under way. *)

LEMMA CardOfPart ==
    ASSUME NEW A, IsFiniteSet(A), NEW B, B \subseteq A
    PROVE  /\ IsFiniteSet(B) /\ Cardinality(A) \in Nat /\ Cardinality(B) \in Nat
           /\ Cardinality(B) <= Cardinality(A)
BY FS_Subset, FS_CardinalityType

LEMMA CardOfOneMore ==
    ASSUME NEW A, IsFiniteSet(A), NEW x, NEW B, B \subseteq A \cup {x}
    PROVE  /\ IsFiniteSet(B) /\ Cardinality(A) \in Nat /\ Cardinality(B) \in Nat
           /\ Cardinality(B) <= Cardinality(A) + 1
<1>1. /\ IsFiniteSet(A \cup {x})
      /\ Cardinality(A \cup {x}) = Cardinality(A) \/ Cardinality(A \cup {x}) = Cardinality(A) + 1
      /\ Cardinality(A) \in Nat
  BY FS_AddElement, FS_CardinalityType
<1> QED  BY <1>1, CardOfPart

LEMMA CardOfOneLess ==
    ASSUME NEW A, IsFiniteSet(A), NEW x \in A, NEW B, B \subseteq A \ {x}
    PROVE  /\ IsFiniteSet(B) /\ Cardinality(A) \in Nat /\ Cardinality(B) \in Nat
           /\ Cardinality(B) + 1 <= Cardinality(A)
<1>1. /\ IsFiniteSet(A \ {x}) /\ Cardinality(A \ {x}) = Cardinality(A) - 1
      /\ Cardinality(A) \in Nat
  BY FS_RemoveElement, FS_CardinalityType
<1> QED  BY <1>1, CardOfPart

AskedBy(c)  == {d \in requests : d.from = c}
RepliesTo(c) == {reply \in replies : reply.to = c}

Counted(c) == client[c].total_received_responses + Cardinality(AskedBy(c)) + InHand(c)
                  + Cardinality(RepliesTo(c))
              <= client[c].total_sent_requests

CountsOK == /\ IsFiniteSet(requests) /\ IsFiniteSet(replies)
            /\ \A c \in Clients \ doubled : Counted(c)

LEMMA CountsAre ==
    CountsOK <=> IsFiniteSet(requests) /\ IsFiniteSet(replies) /\ AnswersDoNotExceedRequests
BY DEF CountsOK, Counted, AnswersDoNotExceedRequests, AskedBy, RepliesTo

\* The four numbers of a client are natural numbers.
LEMMA CountsNat ==
    ASSUME UdpTypeOK, CountsOK, NEW c \in Clients
    PROVE  /\ client[c].total_received_responses \in Nat
           /\ client[c].total_sent_requests \in Nat
           /\ IsFiniteSet(AskedBy(c)) /\ Cardinality(AskedBy(c)) \in Nat
           /\ IsFiniteSet(RepliesTo(c)) /\ Cardinality(RepliesTo(c)) \in Nat
           /\ InHand(c) \in {0, 1}
<1>1. client[c] \in ClientType
  BY UdpTypeIs
<1>2. /\ client[c].total_received_responses \in Nat /\ client[c].total_sent_requests \in Nat
  BY <1>1, MaxAssumption DEF ClientType
<1>3. /\ IsFiniteSet(AskedBy(c)) /\ Cardinality(AskedBy(c)) \in Nat
      /\ IsFiniteSet(RepliesTo(c)) /\ Cardinality(RepliesTo(c)) \in Nat
  BY CardOfPart DEF CountsOK, AskedBy, RepliesTo
<1> QED  BY <1>2, <1>3 DEF InHand

\* What a step does to the four numbers of a client the network has spared.
LEMMA CountsStep ==
    ASSUME UdpTypeOK, CountsOK, [UdpNext]_vars
    PROVE  CountsOK'
<1>1. /\ doubled \subseteq doubled' /\ IsFiniteSet(requests) /\ IsFiniteSet(replies)
      /\ client \in [Clients -> ClientType]
  BY UdpTypeIs
     DEF CountsOK, UdpNext, Launch, ProcessEnds, Lose, ServerStep, ReceiveFrom, CallDatabase,
         DatabaseStep, DatabaseReturns, AnswerChat, SendTo, ClientStep, Start, SendFails, Leave,
         Receives, ReceivesNothing, AskAuth, Say, Sends, vars, udpVars
<1>2. ASSUME NEW c \in Clients \ doubled'
      PROVE  /\ client[c].total_received_responses \in Nat
             /\ client[c].total_sent_requests \in Nat
             /\ IsFiniteSet(AskedBy(c)) /\ Cardinality(AskedBy(c)) \in Nat
             /\ IsFiniteSet(RepliesTo(c)) /\ Cardinality(RepliesTo(c)) \in Nat
             /\ InHand(c) \in {0, 1} /\ InHand(c)' \in {0, 1}
             /\ client[c].total_received_responses + Cardinality(AskedBy(c)) + InHand(c)
                    + Cardinality(RepliesTo(c)) <= client[c].total_sent_requests
  BY <1>1, <1>2, CountsNat DEF CountsOK, Counted, InHand
\* Nothing is added: datagrams are lost, or a client leaves.
<1>3. ASSUME requests' \subseteq requests, replies' \subseteq replies,
             \A c \in Clients : /\ InHand(c)' <= InHand(c)
                                /\ client'[c].total_sent_requests \in
                                      {client[c].total_sent_requests,
                                       client[c].total_sent_requests + 1}
                                /\ client'[c].total_received_responses
                                      = client[c].total_received_responses
      PROVE  CountsOK'
  <2>1. IsFiniteSet(requests') /\ IsFiniteSet(replies')
    BY <1>1, <1>3, CardOfPart
  <2>2. ASSUME NEW c \in Clients \ doubled' PROVE Counted(c)'
    <3>1. /\ Cardinality(AskedBy(c)') \in Nat
          /\ Cardinality(AskedBy(c)') <= Cardinality(AskedBy(c))
      <4>1. AskedBy(c)' \subseteq AskedBy(c)
        BY <1>3 DEF AskedBy
      <4> QED  BY <1>2, <4>1, CardOfPart
    <3>2. /\ Cardinality(RepliesTo(c)') \in Nat
          /\ Cardinality(RepliesTo(c)') <= Cardinality(RepliesTo(c))
      <4>1. RepliesTo(c)' \subseteq RepliesTo(c)
        BY <1>3 DEF RepliesTo
      <4> QED  BY <1>2, <4>1, CardOfPart
    <3> QED  BY <1>2, <1>3, <3>1, <3>2 DEF Counted
  <2> QED  BY <2>1, <2>2 DEF CountsOK
<1>4. ASSUME NEW e \in Clients, ClientStep(e), ~Receives(e),
             ~\E msg, next : Sends(e, msg, next)
      PROVE  CountsOK'
  <2>1. requests' \subseteq requests /\ replies' \subseteq replies /\ loop' = loop
    BY <1>4 DEF ClientStep, Start, SendFails, Leave, ReceivesNothing, AskAuth, Say
  <2>2. PICK at, sent :
           /\ sent \in {client[e].total_sent_requests, client[e].total_sent_requests + 1}
           /\ Becomes(e, at, sent, client[e].total_received_responses)
    <3> DEFINE was == client[e].total_sent_requests
               received == client[e].total_received_responses
    <3>1. Start(e) \/ SendFails(e) \/ Leave(e) \/ ReceivesNothing(e)
      BY <1>4 DEF ClientStep, AskAuth, Say
    <3>2. \E at : Becomes(e, at, was, received) \/ Becomes(e, at, was + 1, received)
      <4>1. CASE Start(e) \/ Leave(e)
        BY <4>1, ClientMoves, Zenon
      <4>2. CASE SendFails(e)
        BY <4>2, ClientMoves, Zenon
      <4>3. CASE ReceivesNothing(e)
        BY <4>3, ClientMoves, Zenon
      <4> QED  BY <3>1, <4>1, <4>2, <4>3
    <3> QED  BY <3>2
  <2>3. /\ client'[e].total_sent_requests = sent
        /\ client'[e].total_received_responses = client[e].total_received_responses
        /\ \A c \in Clients : c # e => client'[c] = client[c]
    BY <2>2, Becoming
  <2>4. \A c \in Clients : InHand(c)' <= InHand(c)
    BY <2>1 DEF InHand
  <2>5. \A c \in Clients : /\ client'[c].total_sent_requests \in
                                 {client[c].total_sent_requests,
                                  client[c].total_sent_requests + 1}
                           /\ client'[c].total_received_responses
                                 = client[c].total_received_responses
    BY <2>2, <2>3
  <2> QED  BY <1>3, <2>1, <2>4, <2>5
\* A datagram is sent, and counted.
<1>5. ASSUME NEW e \in Clients, NEW msg, NEW next, Sends(e, msg, next)
      PROVE  CountsOK'
  <2>1. PICK d : requests' = requests \cup {d} /\ d.from = e
    <3> DEFINE d == [from |-> e, nr |-> client[e].total_sent_requests + 1, msg |-> msg]
    <3>1. requests' = requests \cup {d} /\ d.from = e
      BY <1>5 DEF Sends
    <3> HIDE DEF d
    <3> QED  BY <3>1
  <2>2. replies' = replies /\ loop' = loop
    BY <1>5 DEF Sends
  <2>3. /\ client'[e].total_sent_requests = client[e].total_sent_requests + 1
        /\ client'[e].total_received_responses = client[e].total_received_responses
        /\ \A c \in Clients : c # e => client'[c] = client[c]
    <3>1. Becomes(e, next, client[e].total_sent_requests + 1,
                  client[e].total_received_responses)
      BY <1>5, ClientMoves
    <3> QED  BY <3>1, Becoming
  <2>4. IsFiniteSet(requests') /\ IsFiniteSet(replies')
    BY <1>1, <2>1, <2>2, CardOfOneMore
  <2>5. ASSUME NEW c \in Clients \ doubled' PROVE Counted(c)'
    <3>1. RepliesTo(c)' = RepliesTo(c) /\ InHand(c)' = InHand(c)
      BY <2>2 DEF RepliesTo, InHand
    <3>2. CASE c = e
      <4>1. AskedBy(c)' \subseteq AskedBy(c) \cup {d}
        BY <2>1 DEF AskedBy
      <4>2. /\ Cardinality(AskedBy(c)') \in Nat
            /\ Cardinality(AskedBy(c)') <= Cardinality(AskedBy(c)) + 1
        BY <1>2, <4>1, CardOfOneMore
      <4> QED  BY <1>2, <2>3, <3>1, <3>2, <4>2 DEF Counted
    <3>3. CASE c # e
      <4>1. AskedBy(c)' = AskedBy(c)
        BY <2>1, <3>3 DEF AskedBy
      <4> QED  BY <1>2, <2>3, <3>1, <3>3, <4>1 DEF Counted
    <3> QED  BY <3>2, <3>3
  <2> QED  BY <2>4, <2>5 DEF CountsOK
\* A reply is taken, and counted.
<1>6. ASSUME NEW e \in Clients, Receives(e) PROVE CountsOK'
  <2>1. PICK reply \in replies : TakenReply(e, reply)
    BY <1>6, ReplyTaken
  <2>2. /\ requests' = requests /\ loop' = loop /\ replies' \subseteq replies
        /\ e \notin doubled' => replies' = replies \ {reply}
        /\ reply.to = e
    BY <2>1 DEF TakenReply
  <2>3. /\ client'[e].total_sent_requests = client[e].total_sent_requests
        /\ client'[e].total_received_responses = client[e].total_received_responses + 1
        /\ \A c \in Clients : c # e => client'[c] = client[c]
    <3> DEFINE next == IF client[e].at = "chatWaits" \/ LetsIn(reply) THEN "chat" ELSE "auth"
    <3>1. Becomes(e, next, client[e].total_sent_requests,
                  client[e].total_received_responses + 1)
      BY <2>1 DEF TakenReply
    <3> HIDE DEF next
    <3> QED  BY <3>1, Becoming
  <2>4. IsFiniteSet(requests') /\ IsFiniteSet(replies')
    BY <1>1, <2>2, CardOfPart
  <2>5. ASSUME NEW c \in Clients \ doubled' PROVE Counted(c)'
    <3>1. AskedBy(c)' = AskedBy(c) /\ InHand(c)' = InHand(c)
      BY <2>2 DEF AskedBy, InHand
    <3>2. CASE c = e
      <4>1. reply \in RepliesTo(c) /\ RepliesTo(c)' \subseteq RepliesTo(c) \ {reply}
        BY <2>2, <3>2 DEF RepliesTo
      <4>2. /\ Cardinality(RepliesTo(c)') \in Nat
            /\ Cardinality(RepliesTo(c)') + 1 <= Cardinality(RepliesTo(c))
        BY <1>2, <4>1, CardOfOneLess
      <4> QED  BY <1>2, <2>3, <3>1, <3>2, <4>2 DEF Counted
    <3>3. CASE c # e
      <4>1. RepliesTo(c)' \subseteq RepliesTo(c)
        BY <2>2 DEF RepliesTo
      <4>2. /\ Cardinality(RepliesTo(c)') \in Nat
            /\ Cardinality(RepliesTo(c)') <= Cardinality(RepliesTo(c))
        BY <1>2, <4>1, CardOfPart
      <4> QED  BY <1>2, <2>3, <3>1, <3>3, <4>2 DEF Counted
    <3> QED  BY <3>2, <3>3
  <2> QED  BY <2>4, <2>5 DEF CountsOK
\* A datagram passes from the network into the server's hands.
<1>7. CASE ReceiveFrom
  <2>1. PICK d \in requests :
           /\ loop = Receiving /\ loop' = [pc |-> "dispatching", of |-> d]
           /\ requests' \subseteq requests
           /\ d.from \notin doubled' => requests' = requests \ {d}
           /\ client' = client /\ replies' = replies
    BY <1>7 DEF ReceiveFrom
  <2>2. IsFiniteSet(requests') /\ IsFiniteSet(replies')
    BY <1>1, <2>1, CardOfPart
  <2>3. ASSUME NEW c \in Clients \ doubled' PROVE Counted(c)'
    <3>1. RepliesTo(c)' = RepliesTo(c)
      BY <2>1 DEF RepliesTo
    <3>2. InHand(c) = 0 /\ InHand(c)' = IF c = d.from THEN 1 ELSE 0
      BY <2>1 DEF InHand, Receiving
    <3>3. CASE c = d.from
      <4>1. d \in AskedBy(c) /\ AskedBy(c)' \subseteq AskedBy(c) \ {d}
        BY <2>1, <3>3 DEF AskedBy
      <4>2. /\ Cardinality(AskedBy(c)') \in Nat
            /\ Cardinality(AskedBy(c)') + 1 <= Cardinality(AskedBy(c))
        BY <1>2, <4>1, CardOfOneLess
      <4> QED  BY <1>2, <2>1, <3>1, <3>2, <3>3, <4>2 DEF Counted
    <3>4. CASE c # d.from
      <4>1. AskedBy(c)' \subseteq AskedBy(c)
        BY <2>1 DEF AskedBy
      <4>2. /\ Cardinality(AskedBy(c)') \in Nat
            /\ Cardinality(AskedBy(c)') <= Cardinality(AskedBy(c))
        BY <1>2, <4>1, CardOfPart
      <4> QED  BY <1>2, <2>1, <3>1, <3>2, <3>4, <4>2 DEF Counted
    <3> QED  BY <3>3, <3>4
  <2> QED  BY <2>2, <2>3 DEF CountsOK
\* The answer goes out of the server's hands, or to nobody.
<1>8. CASE SendTo
  <2>1. loop.pc = "sending" /\ loop.of \in Datagrams /\ loop # Receiving
    BY <1>8, LoopShape DEF SendTo
  <2>2. PICK r : /\ r.to = loop.of.from
                 /\ replies \subseteq replies' /\ replies' \subseteq replies \cup {r}
                 /\ loop' = Receiving /\ client' = client /\ requests' = requests
    <3> DEFINE r == [to |-> loop.of.from, nr |-> loop.of.nr, msg |-> loop.of.msg,
                     kind |-> loop.response]
    <3>1. r.to = loop.of.from
      OBVIOUS
    <3>2. replies' = replies \/ replies' = replies \cup {r}
      BY <1>8 DEF SendTo
    <3> HIDE DEF r
    <3> QED  BY <1>8, <3>1, <3>2 DEF SendTo
  <2>3. IsFiniteSet(requests') /\ IsFiniteSet(replies')
    BY <1>1, <2>2, CardOfOneMore
  <2>4. ASSUME NEW c \in Clients \ doubled' PROVE Counted(c)'
    <3>1. AskedBy(c)' = AskedBy(c)
      BY <2>2 DEF AskedBy
    <3>2. InHand(c)' = 0 /\ InHand(c) = IF c = loop.of.from THEN 1 ELSE 0
      BY <2>1, <2>2 DEF InHand
    <3>3. CASE c = loop.of.from
      <4>1. RepliesTo(c)' \subseteq RepliesTo(c) \cup {r}
        BY <2>2 DEF RepliesTo
      <4>2. /\ Cardinality(RepliesTo(c)') \in Nat
            /\ Cardinality(RepliesTo(c)') <= Cardinality(RepliesTo(c)) + 1
        BY <1>2, <4>1, CardOfOneMore
      <4> QED  BY <1>2, <2>2, <3>1, <3>2, <3>3, <4>2 DEF Counted
    <3>4. CASE c # loop.of.from
      <4>1. RepliesTo(c)' \subseteq RepliesTo(c)
        BY <2>2, <3>4 DEF RepliesTo
      <4>2. /\ Cardinality(RepliesTo(c)') \in Nat
            /\ Cardinality(RepliesTo(c)') <= Cardinality(RepliesTo(c))
        BY <1>2, <4>1, CardOfPart
      <4> QED  BY <1>2, <2>2, <3>1, <3>2, <3>4, <4>2 DEF Counted
    <3> QED  BY <3>3, <3>4
  <2> QED  BY <2>3, <2>4 DEF CountsOK
\* The loop goes on with what it holds, or dies with it.
<1>9. CASE Lose \/ CallDatabase \/ DatabaseStep \/ DatabaseReturns \/ AnswerChat
           \/ Launch \/ ProcessEnds \/ UNCHANGED vars
  <2>1. requests' \subseteq requests /\ replies' \subseteq replies /\ client' = client
    BY <1>9 DEF Lose, CallDatabase, DatabaseStep, DatabaseReturns, AnswerChat, Launch,
                ProcessEnds, vars, udpVars
  <2>2. loop' = Receiving \/ loop' = loop \/ (loop # Receiving /\ loop'.of = loop.of)
    <3>1. CASE CallDatabase
      <4>1. loop \in [pc : {"dispatching", "calling"}, of : Datagrams]
        BY <3>1, LoopShape DEF CallDatabase
      <4>2. loop'.of = loop.of
        BY <3>1, <4>1 DEF CallDatabase
      <4> QED  BY <3>1, <4>2, LoopShape DEF CallDatabase
    <3>2. CASE DatabaseReturns \/ AnswerChat
      BY <3>2, LoopShape DEF DatabaseReturns, AnswerChat
    <3>3. CASE Lose \/ DatabaseStep \/ Launch \/ ProcessEnds \/ UNCHANGED vars
      BY <3>3 DEF Lose, DatabaseStep, Launch, ProcessEnds, vars, udpVars
    <3> QED  BY <1>9, <3>1, <3>2, <3>3
  <2>3. \A c \in Clients : InHand(c)' <= InHand(c)
    BY <2>2 DEF InHand
  <2>4. \A c \in Clients : /\ client'[c].total_sent_requests \in
                                 {client[c].total_sent_requests,
                                  client[c].total_sent_requests + 1}
                           /\ client'[c].total_received_responses
                                 = client[c].total_received_responses
    BY <2>1
  <2> QED  BY <1>3, <2>1, <2>3, <2>4
<1>10. ASSUME NEW e \in Clients, ClientStep(e) PROVE CountsOK'
  BY <1>4, <1>5, <1>6, <1>10
<1> QED  BY <1>7, <1>8, <1>9, <1>10 DEF UdpNext, ServerStep

-----------------------------------------------------------------------------
(* The theorems. *)

UdpInv == UdpTypeOK /\ Promises /\ CountsOK /\ Inv /\ GrantedOK /\ LockIsUsed

LEMMA UdpInvInit == UdpInit => UdpInv
<1> SUFFICES ASSUME UdpInit PROVE UdpInv
  OBVIOUS
<1>1. Init /\ Inv /\ call[Srv][Loop] = Idle
  BY InitInv, OnlyLoop DEF UdpInit, Init
<1>2. /\ GrantedOK /\ LockIsUsed
  BY <1>1 DEF GrantedOK, LockIsUsed, Init, Idle
<1>3. UdpTypeOK
  BY <1>1, MaxAssumption DEF UdpInit, UdpTypeOK, Inv, Receiving
<1>4. Promises
  BY <1>1 DEF UdpInit, Promises, LoopOK, RepliesOK, LoginIsEarned, Receiving
<1>5. CountsOK
  <2>1. \A c \in Clients : AskedBy(c) = {} /\ RepliesTo(c) = {} /\ InHand(c) = 0
    BY DEF UdpInit, AskedBy, RepliesTo, InHand
  <2>2. \A c \in Clients : /\ client[c].total_sent_requests = 0
                           /\ client[c].total_received_responses = 0
    BY DEF UdpInit
  <2> QED  BY <2>1, <2>2, FS_EmptySet DEF UdpInit, CountsOK, Counted
<1> QED  BY <1>1, <1>2, <1>3, <1>4, <1>5 DEF UdpInv

LEMMA UdpInvStep == UdpInv /\ [UdpNext]_vars => UdpInv'
<1> SUFFICES ASSUME UdpInv, [UdpNext]_vars PROVE UdpInv'
  OBVIOUS
<1>1. [Next]_dbVars
  BY UdpStepsDatabase DEF UdpInv
<1>2. Inv' /\ GrantedOK' /\ LockIsUsed'
  BY <1>1, StepInv, GrantedStep, LockIsUsedStep DEF UdpInv, Inv
<1>3. UdpTypeOK'
  BY <1>2, UdpTypeStep DEF UdpInv, Inv, Promises
<1> QED  BY <1>2, <1>3, PromisesStep, CountsStep DEF UdpInv

LEMMA UdpInvHolds == UdpSpec => []UdpInv
BY UdpInvInit, UdpInvStep, PTL DEF UdpSpec

\* The datagrams, the counters and the loop keep their types.
THEOREM UdpTypesCorrect == UdpSpec => []UdpTypeOK
<1>1. UdpInv => UdpTypeOK
  BY DEF UdpInv
<1> QED  BY <1>1, UdpInvHolds, PTL

\* The loop uses the database by its calls alone.
THEOREM UdpUsesDatabase == UdpSpec => Spec
<1>1. UdpInit => Init
  BY DEF UdpInit
<1>2. UdpInv => UdpTypeOK
  BY DEF UdpInv
<1> QED  BY <1>1, <1>2, UdpInvHolds, UdpStepsDatabase, PTL DEF UdpSpec, Spec

\* Whatever the network loses, doubles or delays, what the datagram loop gives
\* its clients is what an account registry gives: a REGISTER that comes twice
\* takes effect once, and registerUser returns false to the other.  This is of
\* credentials the format can hold, which the loop does not see to.
THEOREM UdpImplementsRegistry ==
    ASSUME \A u \in Creds : Storable(u)
    PROVE  UdpSpec => ImplementsRegistry
BY UdpUsesDatabase, DatabaseImplementsRegistry, LoopAssumption

\* The loss a client computes is never negative: for any number of datagrams,
\* lost or late, unless the network duplicates one of that client's.
THEOREM LossIsNotNegative == UdpSpec => []AnswersDoNotExceedRequests
<1>1. UdpInv => AnswersDoNotExceedRequests
  BY CountsAre DEF UdpInv
<1> QED  BY <1>1, UdpInvHolds, PTL

\* No client is past its login prompt by an answer meant for somebody else,
\* or to a LOGIN the server refused.
THEOREM LoginsAreEarned == UdpSpec => []LoginIsEarned
<1>1. UdpInv => LoginIsEarned
  BY DEF UdpInv, Promises
<1> QED  BY <1>1, UdpInvHolds, PTL

\* The passwords the server has confirmed, with one it is about to confirm.
DurableUdpInv == UdpInv /\ ServiceInv(Srv) /\ ConfirmedOK

LEMMA ConfirmedStep ==
    ASSUME \A u \in Creds : Storable(u), DurableUdpInv, [UdpNext]_vars
    PROVE  ConfirmedOK'
<1>1. /\ Procs = {Srv} /\ Srv \in Procs /\ Loop \in Threads /\ UdpTypeOK /\ WorkingInv(Srv)
      /\ TypeOK /\ [Next]_dbVars
  BY OnlyLoop, UdpStepsDatabase DEF DurableUdpInv, UdpInv, ServiceInv, Inv
<1> SUFFICES ASSUME FilesWork' PROVE ConfirmedOK'
  BY DEF ConfirmedOK
<1>2. FilesWork
  BY <1>1, FaultsStay DEF FilesWork
<1>3. \A u : Matches(OnRecord, u) => Matches(OnRecord', u)
  BY <1>1, <1>2, RecordGrows
<1>4. /\ loop.pc = "sending" /\ loop.response = "AUTH_SUCCESS" =>
             Matches(OnRecord, loop.of.msg.user)
      /\ \A r \in replies : r.kind = "AUTH_SUCCESS" => Matches(OnRecord, r.msg.user)
  BY <1>2 DEF DurableUdpInv, ConfirmedOK
<1>5. CASE DatabaseReturns
  <2> DEFINE result == call[Srv][Loop]
  <2>1. /\ replies' = replies /\ loop.pc = "calling" /\ result \in Returned
        /\ result.user = loop.of.msg.user
    BY <1>1, <1>5, CallShape
       DEF DatabaseReturns, TakeResult, DurableUdpInv, UdpInv, Promises, LoopOK
  <2>2. /\ loop'.of = loop.of
        /\ loop'.response = "AUTH_SUCCESS" => result.at = "authenticated" /\ result.ok
    BY <1>5, <2>1 DEF DatabaseReturns, Returned
  <2>3. loop'.response = "AUTH_SUCCESS" => Matches(OnRecord, loop'.of.msg.user)
    BY <1>1, <1>2, <2>1, <2>2 DEF DurableUdpInv, ServiceInv, LoginsOK
  <2> QED  BY <1>3, <1>4, <2>1, <2>3 DEF ConfirmedOK
<1>6. CASE SendTo
  <2>1. \A r \in replies' : r \in replies \/ (r.kind = loop.response /\ r.msg = loop.of.msg)
    BY <1>6 DEF SendTo
  <2>2. loop'.pc # "sending" /\ loop.pc = "sending"
    BY <1>6 DEF SendTo, Receiving
  <2> QED  BY <1>3, <1>4, <2>1, <2>2 DEF ConfirmedOK
<1>7. CASE ~DatabaseReturns /\ ~SendTo
  <2>1. replies' \subseteq replies
    <3>1. \A c \in Clients : ClientStep(c) => replies' \subseteq replies
      BY DEF ClientStep, Start, SendFails, Leave, Receives, ReceivesNothing, AskAuth, Say, Sends
    <3> QED  BY <1>7, <3>1
             DEF UdpNext, Launch, ProcessEnds, Lose, ServerStep, ReceiveFrom, CallDatabase,
                 DatabaseStep, AnswerChat, vars, udpVars
  <2>2. loop'.pc = "sending" => loop' = loop \/ loop'.response = "ACK"
    <3>1. \A c \in Clients : ClientStep(c) => loop' = loop
      BY DEF ClientStep, Start, SendFails, Leave, Receives, ReceivesNothing, AskAuth, Say, Sends
    <3>2. CallDatabase => loop'.pc = "calling"
      BY <1>1, LoopShape DEF CallDatabase
    <3> QED  BY <1>7, <3>1, <3>2
             DEF UdpNext, Launch, ProcessEnds, Lose, ServerStep, ReceiveFrom, Receiving,
                 DatabaseStep, AnswerChat, vars, udpVars
  <2> QED  BY <1>3, <1>4, <2>1, <2>2 DEF ConfirmedOK
<1> QED  BY <1>5, <1>6, <1>7

LEMMA DurableUdpHolds ==
    ASSUME \A u \in Creds : Storable(u)
    PROVE  UdpSpec => []DurableUdpInv
<1>1. UdpInit => DurableUdpInv
  <2> SUFFICES ASSUME UdpInit PROVE DurableUdpInv
    OBVIOUS
  <2>1. UdpInv /\ ServiceInv(Srv)
    BY UdpInvInit, ServiceInvInit, OnlyLoop DEF UdpInit
  <2>2. ConfirmedOK
    BY DEF UdpInit, ConfirmedOK, Receiving
  <2> QED  BY <2>1, <2>2 DEF DurableUdpInv
<1>2. DurableUdpInv /\ [UdpNext]_vars => DurableUdpInv'
  <2> SUFFICES ASSUME DurableUdpInv, [UdpNext]_vars PROVE DurableUdpInv'
    OBVIOUS
  <2>1. UdpInv' /\ [Next]_dbVars
    BY UdpInvStep, UdpStepsDatabase DEF DurableUdpInv, UdpInv
  <2>2. ServiceInv(Srv)'
    BY <2>1, ServiceInvStep, OnlyLoop DEF DurableUdpInv
  <2> QED  BY <2>1, <2>2, ConfirmedStep DEF DurableUdpInv
<1> QED  BY <1>1, <1>2, PTL DEF UdpSpec

\* Where the files work, whoever received REG_SUCCESS finds the account again
\* after any restarts, whatever became of the datagrams.
THEOREM ToldUdpAccountsAreDurable ==
    ASSUME \A u \in Creds : Storable(u)
    PROVE  UdpSpec => [](FilesWork => ToldIsDurable)
<1>1. DurableUdpInv => (FilesWork => ToldIsDurable)
  BY DEF DurableUdpInv, UdpInv, Promises, ServiceInv, WorkingInv, DurableInv, Durable,
         ToldIsDurable
<1> QED  BY <1>1, DurableUdpHolds, PTL

\* Where the files work, two confirmations for one name, however late the
\* earlier is, confirm the same password.
THEOREM PasswordsAreOne ==
    ASSUME \A u \in Creds : Storable(u)
    PROVE  UdpSpec => [](FilesWork => OnePasswordEach)
<1>1. DurableUdpInv => (FilesWork => OnePasswordEach)
  <2> SUFFICES ASSUME DurableUdpInv, FilesWork,
                      NEW r \in replies, NEW s \in replies,
                      r.kind = "AUTH_SUCCESS", s.kind = "AUTH_SUCCESS",
                      r.msg.user.username = s.msg.user.username
               PROVE  r.msg.user = s.msg.user
    BY DEF OnePasswordEach
  <2>1. Matches(OnRecord, r.msg.user) /\ Matches(OnRecord, s.msg.user)
    BY DEF DurableUdpInv, ConfirmedOK
  <2>2. r.msg.user.password = s.msg.user.password
    BY <2>1 DEF Matches
  <2>3. r.msg.user \in User /\ s.msg.user \in User
    <3>1. r.msg \in Commands /\ s.msg \in Commands
      BY DEF DurableUdpInv, UdpInv, Promises, RepliesOK
    <3> QED  BY <3>1, CredsAssumption DEF Commands
  <2> QED  BY <2>2, <2>3 DEF User
<1> QED  BY <1>1, DurableUdpHolds, PTL
=============================================================================
