---------------------------- MODULE SessionServer ----------------------------
(***************************************************************************)
(* The TCP/SCTP server (server_code/server.cpp) with its clients           *)
(* (tuna_cli/client_code/client.cpp): one detached thread for each         *)
(* connection, which runs handle_client_session and calls the database of  *)
(* UserDatabase.  t names a connection, its thread and its client.         *)
(*                                                                         *)
(* A frame is one message: the length header, the cipher and the loops     *)
(* around partial reads and writes are abstracted.  That send() is two     *)
(* writes is kept where it shows, on a connection the peer has closed.     *)
(***************************************************************************)
EXTENDS UserDatabase

CONSTANTS
    Srv,            \* the server process
    OperatorKills,  \* whether somebody stops the server by a signal
    PowerFails,     \* whether a client's host may disappear from the network
    LISTENQ,        \* connections the kernel keeps until they are accepted
    SureThreads     \* session threads the system never refuses to create

ASSUME SrvAssumption     == Procs = {Srv}
ASSUME KillsAssumption   == OperatorKills \in BOOLEAN /\ PowerFails \in BOOLEAN
ASSUME ListenAssumption  == LISTENQ \in Nat \ {0}
ASSUME ThreadsAssumption == SureThreads \in Nat

VARIABLES
    client,     \* where the client program is, and what it asked for last
    conn,       \* the connection and the frame on its way in each direction
    sess,       \* the locals of handle_client_session
    told        \* history: the users a client was told REG_SUCCESS for

sessVars == <<client, conn, sess, told>>
vars     == <<dbVars, sessVars>>

NoMsg == [kind |-> "none"]

Login(u)    == [kind |-> "login", user |-> u]
Register(u) == [kind |-> "register", user |-> u]
Chat        == [kind |-> "chat"]
EmptyLine   == [kind |-> "empty"]
Incomplete  == [kind |-> "incomplete"]      \* REGISTER without a password

Commands  == {Login(u) : u \in Creds} \cup {Register(u) : u \in Creds}
Requests  == Commands \cup {Chat, EmptyLine, Incomplete}
Responses == {"AUTH_SUCCESS", "AUTH_FAIL", "REG_SUCCESS", "REG_FAIL: User exists",
              "REG_FAIL: Invalid data", "ERROR", "ACK"}

Reply(response) == [kind |-> response]

Prompt(loop) == [at |-> loop, asked |-> NoMsg]
Away     == Prompt("away")
NoConn   == [state |-> "none", toServer |-> NoMsg, toClient |-> NoMsg]
NoThreadYet == [pc |-> "none", is_logged_in |-> FALSE, current_user |-> <<>>,
                msg |-> NoMsg, response |-> "none"]

\* Type invariant of the clients, their connections and the locals of
\* handle_client_session.
SessTypeOK ==
    /\ TypeOK
    /\ client \in [Threads ->
          [at : {"away", "auth", "authWaits", "chat", "chatWaits", "leaving"},
           asked : Requests \cup {NoMsg}]]
    /\ conn \in [Threads ->
          [state : {"none", "open", "clientGone", "vanished", "unacked", "reset", "serverGone"},
           toServer : Requests \cup {NoMsg},
           toClient : {Reply(r) : r \in Responses} \cup {NoMsg}]]
    /\ sess \in [Threads ->
          [pc : {"none", "receiving", "dispatching", "calling", "sending"},
           is_logged_in : BOOLEAN,
           current_user : {u.username : u \in Creds} \cup {<<>>},
           msg : Requests \cup {NoMsg},
           response : Responses \cup {"none"}]]
    /\ told \subseteq Creds

SessInit == /\ Init
            /\ client = [t \in Threads |-> Away]
            /\ conn = [t \in Threads |-> NoConn]
            /\ sess = [t \in Threads |-> NoThreadYet]
            /\ told = {}

-----------------------------------------------------------------------------
(* The client. *)

\* The connections nobody has accepted yet.
Waiting == {t \in Threads : /\ conn[t].state \notin {"none", "serverGone"}
                            /\ sess[t].pc = "none"}

\* connectTo, answered by the kernel before the server accepts, when there is
\* room in the queue; otherwise it is tried again.
Connect(t) ==
    /\ Cardinality(Waiting) < LISTENQ
    /\ phase[Srv] = "serving"
    /\ client[t] = Away
    /\ conn[t].state = "none"
    /\ client' = [client EXCEPT ![t].at = "auth"]
    /\ conn' = [conn EXCEPT ![t].state = "open"]
    /\ UNCHANGED <<dbVars, sess, told>>

\* A frame to a server that is gone is lost; either write may fail then.
Transmit(t, msg) ==
    conn' = IF conn[t].state = "open"
            THEN [conn EXCEPT ![t].toServer = msg] ELSE conn

\* The login prompt.  A send that returned -1 counts as done here, so the
\* client goes on to wait for an answer.
AskAuth(t, request) ==
    /\ client[t].at = "auth"
    /\ client' = [client EXCEPT ![t] = [at |-> "authWaits", asked |-> request]]
    /\ Transmit(t, request)
    /\ UNCHANGED <<dbVars, sess, told>>

\* send returns data.size(), so an empty line is sent and then taken for a
\* failed transmission, which ends the chat loop.
Say(t, request) ==
    /\ client[t].at = "chat"
    /\ client' = [client EXCEPT ![t] =
           [at |-> IF request = EmptyLine THEN "leaving" ELSE "chatWaits", asked |-> request]]
    /\ Transmit(t, request)
    /\ UNCHANGED <<dbVars, sess, told>>

\* resp.find("AUTH_SUCCESS") ends the login loop, any other answer does not.
ClientReceives(t) ==
    /\ client[t].at \in {"authWaits", "chatWaits"}
    /\ conn[t].toClient # NoMsg
    /\ client' = [client EXCEPT ![t] = Prompt(
           IF @.at = "chatWaits" \/ conn[t].toClient.kind = "AUTH_SUCCESS"
           THEN "chat" ELSE "auth")]
    /\ conn' = [conn EXCEPT ![t].toClient = NoMsg]
    /\ told' = IF conn[t].toClient.kind = "REG_SUCCESS"
               THEN told \cup {client[t].asked.user} ELSE told
    /\ UNCHANGED <<dbVars, sess>>

\* recieve returns 0 or -1: the login loop asks again in silence, the chat
\* loop prints that there was no response; neither leaves.
ClientHearsNothing(t) ==
    /\ client[t].at \in {"authWaits", "chatWaits"}
    /\ conn[t].state = "serverGone"
    /\ conn[t].toClient = NoMsg
    /\ client' = [client EXCEPT ![t] =
           Prompt(IF @.at = "chatWaits" THEN "chat" ELSE "auth")]
    /\ UNCHANGED <<dbVars, conn, sess, told>>

\* The kernel closes the client's socket, with a reset when an answer was
\* still unread.
LeftBehind(c) ==
    IF c.state = "serverGone" THEN NoConn
    ELSE [c EXCEPT !.state = IF c.state = "open" /\ c.toClient = NoMsg
                             THEN "clientGone" ELSE "reset",
                   !.toClient = NoMsg]

\* The user quits or kills the program, or a write to a server that is gone
\* kills it (SIGPIPE) or fails.
Leave(t) ==
    /\ client[t].at # "away"
    /\ client' = [client EXCEPT ![t] = Away]
    /\ conn' = [conn EXCEPT ![t] = LeftBehind(@)]
    /\ UNCHANGED <<dbVars, sess, told>>

\* The client's host is gone without a word (power, cable); what it had sent
\* may or may not have arrived.
Vanish(t) ==
    /\ PowerFails
    /\ client[t].at # "away"
    /\ conn[t].state = "open"
    /\ client' = [client EXCEPT ![t] = Away]
    /\ \E msg \in {conn[t].toServer, NoMsg} :
           conn' = [conn EXCEPT ![t] = [NoConn EXCEPT !.state = "vanished", !.toServer = msg]]
    /\ UNCHANGED <<dbVars, sess, told>>

\* The kernel gives the connection up: after a number of retransmissions that
\* nobody acknowledged, or, over SCTP, of heartbeats.
KernelGivesUp(t) ==
    /\ conn[t].state \in {"unacked", "vanished"}
    /\ conn' = [conn EXCEPT ![t].state = "reset"]
    /\ UNCHANGED <<dbVars, client, sess, told>>

-----------------------------------------------------------------------------
(* The session thread. *)

\* The thread ends, or dies with the process: the socket is closed.
Closed(c) == IF c.state \in {"open", "serverGone"}
             THEN [c EXCEPT !.state = "serverGone", !.toServer = NoMsg]
             ELSE NoConn

Running == {t \in Threads : sess[t].pc # "none"}

\* Mutant: the thread is joined, not detached.
Accept_Joined(t) ==
    /\ phase[Srv] = "serving"
    /\ t \in Waiting
    /\ Running = {}
    /\ sess' = [sess EXCEPT ![t].pc = "receiving"]
    /\ UNCHANGED <<dbVars, client, conn, told>>

Accept(t) ==
    /\ phase[Srv] = "serving"
    /\ t \in Waiting
    /\ sess' = [sess EXCEPT ![t].pc = "receiving"]
    /\ UNCHANGED <<dbVars, client, conn, told>>

\* Mutant: the request is left in the socket and read again.
ServerReceives_Peeks(t) ==
    /\ sess[t].pc = "receiving"
    /\ conn[t].state # "reset"
    /\ conn[t].toServer \notin {NoMsg, EmptyLine}
    /\ sess' = [sess EXCEPT ![t].pc = "dispatching", ![t].msg = conn[t].toServer]
    /\ UNCHANGED <<dbVars, client, conn, told>>

ServerReceives(t) ==
    /\ sess[t].pc = "receiving"
    /\ conn[t].state # "reset"
    /\ conn[t].toServer \notin {NoMsg, EmptyLine}
    /\ sess' = [sess EXCEPT ![t].pc = "dispatching", ![t].msg = conn[t].toServer]
    /\ conn' = [conn EXCEPT ![t].toServer = NoMsg]
    /\ UNCHANGED <<dbVars, client, told>>

\* Mutant: bytes < 0, so an orderly close is not the end of the session.
EndSession_OnError(t) ==
    /\ sess[t].pc = "receiving"
    /\ conn[t].state = "reset"
    /\ sess' = [sess EXCEPT ![t] = NoThreadYet]
    /\ conn' = [conn EXCEPT ![t] = Closed(@)]
    /\ UNCHANGED <<dbVars, client, told>>

\* bytes <= 0: a closed or reset connection, and a frame with no bytes in it.
EndSession(t) ==
    /\ sess[t].pc = "receiving"
    /\ \/ conn[t].state = "reset"
       \/ conn[t].state = "clientGone" /\ conn[t].toServer = NoMsg
       \/ conn[t].toServer = EmptyLine
    /\ sess' = [sess EXCEPT ![t] = NoThreadYet]
    /\ conn' = [conn EXCEPT ![t] = Closed(@)]
    /\ UNCHANGED <<dbVars, client, told>>

\* LOGIN and REGISTER, from a session that is not logged in.
CallDatabase(t) ==
    /\ sess[t].pc = "dispatching"
    /\ ~sess[t].is_logged_in
    /\ LET msg == sess[t].msg
       IN  \/ /\ msg.kind = "login"
              /\ Authenticate(Srv, t, msg.user)
           \/ /\ msg.kind = "register"
              /\ RegisterExisting(Srv, t, msg.user) \/ RegisterNew(Srv, t, msg.user)
    /\ sess' = [sess EXCEPT ![t].pc = "calling", ![t].msg = NoMsg]
    /\ UNCHANGED <<client, conn, told>>

DatabaseStep(t) ==
    /\ Insert(Srv, t) \/ AppendLine(Srv, t)
    /\ UNCHANGED sessVars

\* Mutant: the result of registerUser is not looked at.
Outcome_AlwaysRegistered(result) ==
    IF result.at = "registered" THEN "REG_SUCCESS"
    ELSE IF result.ok THEN "AUTH_SUCCESS" ELSE "AUTH_FAIL"

Outcome(result) ==
    CASE result.at = "authenticated" /\ result.ok  -> "AUTH_SUCCESS"
      [] result.at = "authenticated" /\ ~result.ok -> "AUTH_FAIL"
      [] result.at = "registered" /\ result.ok     -> "REG_SUCCESS"
      [] result.at = "registered" /\ ~result.ok    -> "REG_FAIL: User exists"

\* Mutants: the session keeps the credentials; the login is not remembered.
LogsIn_WithPassword(s, u) == [s EXCEPT !.is_logged_in = TRUE, !.current_user = u]
LogsIn_NotAtAll(s, u)     == [s EXCEPT !.current_user = u.username]

LogsIn(s, u) == [s EXCEPT !.is_logged_in = TRUE, !.current_user = u.username]

\* The call returns; only a login that succeeded changes the session.
DatabaseReturns(t) ==
    /\ sess[t].pc = "calling"
    /\ TakeResult(Srv, t)
    /\ LET result   == call[Srv][t]
           response == Outcome(result)
           s        == IF response = "AUTH_SUCCESS" THEN LogsIn(sess[t], result.user)
                       ELSE sess[t]
       IN  sess' = [sess EXCEPT ![t] = [s EXCEPT !.pc = "sending", !.response = response]]
    /\ UNCHANGED <<client, conn, told>>

\* The answers that need no database.
AnswerAtOnce(t) ==
    /\ sess[t].pc = "dispatching"
    /\ sess[t].is_logged_in \/ sess[t].msg.kind \in {"chat", "incomplete"}
    /\ sess' = [sess EXCEPT
           ![t].pc = "sending",
           ![t].msg = NoMsg,
           ![t].response = IF sess[t].is_logged_in THEN "ACK"
                           ELSE IF sess[t].msg.kind = "chat" THEN "ERROR"
                           ELSE "REG_FAIL: Invalid data"]
    /\ UNCHANGED <<dbVars, client, conn, told>>

\* The result of send is not looked at: the loop goes back to recieve.
Send(t) ==
    /\ sess[t].pc = "sending"
    /\ sess' = [sess EXCEPT ![t].pc = "receiving", ![t].response = "none"]
    /\ conn' = [conn EXCEPT ![t] =
           CASE @.state = "open" -> [@ EXCEPT !.toClient = Reply(sess[t].response)]
             [] @.state \in {"vanished", "unacked"} -> [@ EXCEPT !.state = "unacked"]
             [] OTHER -> [@ EXCEPT !.state = "reset"]]
    /\ UNCHANGED <<dbVars, client, told>>

ProcessEnds ==
    /\ Kill(Srv)
    /\ sess' = [t \in Threads |-> NoThreadYet]
    /\ conn' = [t \in Threads |-> Closed(conn[t])]
    /\ UNCHANGED <<client, told>>

\* std::thread's constructor throws when the system refuses another thread,
\* and nothing in main catches it.
AcceptThrows(t) ==
    /\ phase[Srv] = "serving"
    /\ t \in Waiting
    /\ Cardinality(Running) >= SureThreads
    /\ ProcessEnds

\* The header goes out to a peer that has closed; its reset arrives before the
\* body is written, and the second write raises SIGPIPE, which is not handled.
SendRaisesSigpipe(t) ==
    /\ sess[t].pc = "sending"
    /\ conn[t].state = "clientGone"
    /\ ProcessEnds

-----------------------------------------------------------------------------

Launch ==
    /\ \/ Construct(Srv) \/ BindSucceeds(Srv) \/ BindFails(Srv)
       \/ SaveTruncates(Srv) \/ SaveLine(Srv) \/ SaveCloses(Srv)
       \/ SaveCannotOpen(Srv)
    /\ UNCHANGED sessVars

SessionStep(t) ==
    \/ ServerReceives(t) \/ EndSession(t) \/ CallDatabase(t) \/ DatabaseStep(t)
    \/ DatabaseReturns(t) \/ AnswerAtOnce(t) \/ Send(t) \/ SendRaisesSigpipe(t)

ClientStep(t) ==
    \/ Connect(t) \/ ClientReceives(t) \/ ClientHearsNothing(t)
    \/ Leave(t) \/ Vanish(t)
    \/ \E request \in Commands \cup {Incomplete} : AskAuth(t, request)
    \/ \E request \in {Chat, EmptyLine} : Say(t, request)

SessNext ==
    \/ Launch
    \/ OperatorKills /\ ProcessEnds
    \/ \E t \in Threads : \/ ClientStep(t) \/ KernelGivesUp(t)
                          \/ Accept(t) \/ AcceptThrows(t) \/ SessionStep(t)

SessSpec == SessInit /\ [][SessNext]_vars

\* The accept loop and each session thread are threads of the operating
\* system, which runs a thread that can run; so is a client that has a reply
\* to read.  The kernel gives up a connection on which it waits for an
\* acknowledgement, but TCP does not ask after one that is silent.  Users need
\* not ask, nor connect, nor leave.
SessFairness ==
    \A t \in Threads :
        /\ WF_vars(conn[t].state = "unacked" /\ KernelGivesUp(t))
        /\ WF_vars(Accept(t))
        /\ WF_vars(SessionStep(t))
        /\ WF_vars(ClientReceives(t) \/ ClientHearsNothing(t))

FairSessSpec == SessSpec /\ SessFairness

-----------------------------------------------------------------------------
(* Properties. *)

\* A client that was told REG_SUCCESS finds its account in every later run of
\* the server, whatever died in between; so does one whose answer is still on
\* its way.
ToldIsDurable ==
    /\ \A u \in told : Matches(OnRecord, u)
    /\ \A t \in Threads : conn[t].toClient.kind = "REG_SUCCESS" =>
                             Matches(OnRecord, client[t].asked.user)

AnswersTo(request) ==
    CASE request.kind = "login"      -> {"AUTH_SUCCESS", "AUTH_FAIL"}
      [] request.kind = "register"   -> {"REG_SUCCESS", "REG_FAIL: User exists"}
      [] request.kind = "incomplete" -> {"REG_FAIL: Invalid data"}
      [] request.kind = "chat"       -> {"ACK"}
      [] OTHER                       -> {}

\* The frame a client waits on is on its way, in its session's hands, or
\* answered.
Places(t) == {place \in {"toServer", "session", "toClient"} :
                 CASE place = "session" -> sess[t].pc \notin {"none", "receiving"}
                   [] OTHER             -> conn[t][place] # NoMsg}

\* No session's answer reaches another client, and no answer is late: what is
\* on its way to a client answers its last request.  No request is lost or
\* taken twice either: while the connection stands it is in one place.
AnswersTheRequest ==
    \A t \in Threads :
        /\ conn[t].toClient # NoMsg =>
               /\ client[t].at \in {"authWaits", "chatWaits"}
               /\ conn[t].toClient.kind \in AnswersTo(client[t].asked)
        /\ conn[t].state = "open" /\ client[t].at \in {"authWaits", "chatWaits"} =>
               \E place \in {"toServer", "session", "toClient"} : Places(t) = {place}

\* A client is past its login prompt exactly when its session is logged in,
\* except while AUTH_SUCCESS is on its way, to a client whose last request
\* gave the name its session is now logged in under.
BothEndsAgree ==
    \A t \in Threads :
        conn[t].state = "open" /\ sess[t].pc \in {"receiving", "dispatching", "calling"} =>
            /\ sess[t].is_logged_in <=> \/ client[t].at \in {"chat", "chatWaits", "leaving"}
                                       \/ conn[t].toClient.kind = "AUTH_SUCCESS"
            /\ conn[t].toClient.kind = "AUTH_SUCCESS" =>
                  /\ client[t].asked.kind = "login"
                  /\ sess[t].current_user = client[t].asked.user.username

\* A session is logged in only as the holder of an account on record.
LoggedInHasAccount ==
    \A t \in Threads : sess[t].is_logged_in => sess[t].current_user \in DOMAIN OnRecord

\* A request is answered, or its client learns that the connection is gone,
\* or leaves.
EveryRequestEnds ==
    \A t \in Threads : client[t].at \in {"authWaits", "chatWaits"}
                          ~> client[t].at \notin {"authWaits", "chatWaits"}

\* A connection in the kernel's queue is accepted, however long the sessions
\* before it last.
ConnectionsAreAccepted == \A t \in Threads : t \in Waiting ~> t \notin Waiting

\* A session thread that has nothing left to read from a peer it has sent
\* nothing to, and does not know to be gone.
HalfOpen(t) == /\ conn[t].state = "vanished" /\ conn[t].toServer = NoMsg
               /\ sess[t].pc = "receiving"

\* The thread of a client that has left, in whatever way, ends and leaves
\* nothing behind, unless its host vanished with nothing under way.
SessionsAreReaped ==
    \A t \in Threads : client[t].at = "away" ~> \/ conn[t].state = "none"
                                                \/ client[t].at # "away"
                                                \/ HalfOpen(t)

\* A session ends with its own client: no client stops the process that
\* serves the others (server.cpp:54, README.md:63).
ServerOutlivesClients ==
    [][phase[Srv] = "serving" => phase'[Srv] = "serving"]_vars
=============================================================================
